---- MODULE Spec2Model ----
(***************************************************************************)
(* BeebLink AVR firmware (src/firmware/beeblink.c): the packet header      *)
(* codec, the forwarding engine SendPacketHeaderAndForwardPayload, the     *)
(* local dispatcher HandleRequestAVR and the session loop MainLoop.        *)
(*                                                                         *)
(* One step of the model is one call of a byte transport                   *)
(* (ReceiveByteFromBeeb, SendByteToBeeb, ReceiveByteFromHost,              *)
(* SendByteToHost, ReceiveErrorByte) together with the code around it, or  *)
(* one piece of MainLoop between two such calls.  Of the serial log the    *)
(* packet headers that MainLoop prints (serial), the "waiting" message     *)
(* (waiting) and the counts of payload bytes dumped and of "eliding"       *)
(* messages (fwd) are kept; the other messages and the LEDs are output     *)
(* only and are left out; g_num_loops is written and never read and is     *)
(* left out too.  SendPacketHeaderAndForwardPayload.inl, which beeblink.c  *)
(* does not include, is modelled next to the routine of beeblink.c for the *)
(* comparison of the two.                                                  *)
(***************************************************************************)
EXTENDS Integers, Naturals, Sequences, FiniteSets, TLC

VARIABLES
    pc,                   \* position of the single thread of control
    err,                  \* Error returned by the call that last returned
    ph,                   \* the PacketHeader objects: request, response, local
    rph,                  \* frame of ReceivePacketHeader
    fwd,                  \* frame of SendPacketHeaderAndForwardPayload
    avr_p,                \* HandleRequestAVR's local p
    ectx,                 \* ReceiveErrorByteContext
    ep,                   \* USB endpoint state: selected endpoint and banks
    g_last_request_type,  \* the module-level memo of the last request type
    trace,                \* history of the transport calls of this iteration
    wire,                 \* loopback byte queue (codec specification only)
    sz,                   \* operands and results (payload size specification)
    line,                 \* user port lines and registers (handshake specification)
    serial,               \* packet headers printed on the serial port this iteration
    spin,                 \* parity of the spin-wait rounds taken (liveness specification)
    waiting,              \* MainLoop's waiting_message_printed, and the "waiting" messages printed
    runs                  \* inputs and results of the runs compared (comparison specifications)

vars == <<pc, err, ph, rph, fwd, avr_p, ectx, ep, g_last_request_type,
          trace, wire, sz, line, serial, spin, waiting, runs>>

---------------------------------------------------------------------------
(* Bounds of the model.                                                    *)

\* largest payload size the peers declare in the session specification
MaxPayload == 2
\* bytes one endpoint bank holds (EA_INPUT_PACKET_SIZE, EA_OUTPUT_PACKET_SIZE)
BankSize == 2
\* longest run of Endpoint_WaitUntilReady results one wait consumes
MaxWaits == 2
\* bits of WaitForBeebReady's counter kept by the handshake specification
\* (uint16_t in the source: it wraps after 2^16 spins, here after 2^CounterBits)
CounterBits == 2
\* times the Beeb may drop CB2 again after AckAndCheck's inner wait saw it high
MaxGlitches == 1

---------------------------------------------------------------------------
(* Constants of the protocol.  .build/beeblink_constants.h is generated    *)
(* and its values are not part of the sources; the case labels of the     *)
(* switch statements force the request codes below to be distinct, and     *)
(* the two sub-opcodes likewise.                                           *)

REQUEST_AVR_PRESENCE == 0
REQUEST_AVR == 1
REQUEST_AVR_READY == 0
REQUEST_AVR_ERROR == 1
REQUEST_READ_STRING == 3
REQUEST_OSBGET == 4
REQUEST_OSBPUT == 5
REQUEST_OSFILE == 6
REQUEST_OSGBPB == 7
RESPONSE_NO == 0
RESPONSE_YES == 1
RESPONSE_ERROR == 4
AVR_PROTOCOL_VERSION == 1

\* content of storage that was declared and never assigned
Uninit == -1

\* what pgm_read_byte yields past the terminator of a message
PastEnd == -2

None == "None"
NoBeebHandshake == "NoBeebHandshake"
Reset == "Reset"
USBEndpointStalled == "USBEndpointStalled"
USBDeviceDisconnected == "USBDeviceDisconnected"
USBBusSuspended == "USBBusSuspended"
USBTimeout == "USBTimeout"
USB == "USB"

Error ==
    {None, NoBeebHandshake, Reset, USBEndpointStalled, USBDeviceDisconnected,
     USBBusSuspended, USBTimeout, USB}

\* results of LUFA's Endpoint_WaitUntilReady; "Other" is any further value
READYWAIT ==
    {"NoError", "EndpointStalled", "DeviceDisconnected", "BusSuspended",
     "Timeout", "Other"}

EA_INPUT == "EA_INPUT"
EA_OUTPUT == "EA_OUTPUT"

BadPayloadSizeText ==
    <<66, 97, 100, 32, 82, 69, 81, 85, 69, 83, 84, 95, 65, 86, 82, 32,
      112, 97, 121, 108, 111, 97, 100, 32, 115, 105, 122, 101>>
BadPayloadText ==
    <<66, 97, 100, 32, 82, 69, 81, 85, 69, 83, 84, 95, 65, 86, 82, 32,
      112, 97, 121, 108, 111, 97, 100>>
AsRequestedText ==
    <<65, 115, 32, 114, 101, 113, 117, 101, 115, 116, 101, 100>>

---------------------------------------------------------------------------
(* PacketType and PacketHeader.                                            *)

\* union PacketType: bits.c is the low seven bits of all, bits.v is bit 7
TypeC(t) == t % 128
TypeV(t) == t \div 128
MakeType(v, c) == 128 * v + c

\* a PacketHeader object that was declared and not initialised
NoHeader == [t |-> Uninit, p |-> Uninit, p_size |-> <<Uninit, Uninit, Uninit, Uninit>>]

\* a uint32_t is kept as its two 16-bit halves: the checker's integers are
\* 32-bit signed and cannot hold 2^32-1
U32(hi, lo) == [hi |-> hi, lo |-> lo]

RECURSIVE BitOr(_, _)
BitOr(a, b) ==
    IF a = 0 THEN b
    ELSE IF b = 0 THEN a
    ELSE (IF a % 2 = 1 \/ b % 2 = 1 THEN 1 ELSE 0) + 2 * BitOr(a \div 2, b \div 2)

U32Or(a, b) == U32(BitOr(a.hi, b.hi), BitOr(a.lo, b.lo))

\* ph->p_size[1]<<8 after promotion to int, 16 bits wide on the AVR; gcc
\* defines << on a signed operand as the shift of its two's complement
\* pattern, so a byte of 0x80 and above gives a negative int
ShlInt16(b, k) ==
    LET u == (b * (2 ^ k)) % 65536
    IN  IF u >= 32768 THEN u - 65536 ELSE u

\* a|b of two ints (16 bits), on their two's complement patterns
OrInt16(a, b) ==
    LET ua == IF a < 0 THEN a + 65536 ELSE a
        ub == IF b < 0 THEN b + 65536 ELSE b
        u == BitOr(ua, ub)
    IN  IF u >= 32768 THEN u - 65536 ELSE u

\* conversion of an int to uint32_t: the value modulo 2^32
IntToU32(x) == IF x < 0 THEN U32(65535, x + 65536) ELSE U32(0, x)

\* (uint32_t)b<<k for k in {16, 24}
ShlU32(b, k) == U32((b * (2 ^ (k - 16))) % 65536, 0)

\* GetPayloadSize reading the least significant length byte only
GetPayloadSizeLowByte(p_size) == U32(0, p_size[1])

\* GetPayloadSize: p_size[0] | p_size[1]<<8 is computed in int, the other
\* two operands are uint32_t, so the int is converted before the last two ors
GetPayloadSize(p_size) ==
    U32Or(U32Or(IntToU32(OrInt16(p_size[1], ShlInt16(p_size[2], 8))),
                ShlU32(p_size[3], 16)),
          ShlU32(p_size[4], 24))

\* SetPayloadSize: p_size[k] = (uint8_t)(p_size>>8k)
SetPayloadSize(n) ==
    <<n.lo % 256, (n.lo \div 256) % 256, n.hi % 256, (n.hi \div 256) % 256>>

\* i<p_size for a loop counter that the bounds keep below 2^16
U32Less(i, n) == n.hi > 0 \/ i < n.lo

---------------------------------------------------------------------------
(* The bytes the two peers put on their links.  The firmware accepts any   *)
(* byte; these sets keep the state space finite.                           *)

\* request codes: the two meta-requests and one request that is forwarded
RequestCodes == {REQUEST_AVR_PRESENCE, REQUEST_AVR, 2}
\* a request that is forwarded and is not logged: one fixed-size form of it
QuietRequests == {MakeType(0, REQUEST_OSBGET)}
\* response codes the host answers with
ResponseCodes == {REQUEST_AVR_PRESENCE, RESPONSE_YES}
\* inline bytes and sub-opcodes: ready query, error injection, unknown
InlineBytes == {REQUEST_AVR_READY, REQUEST_AVR_ERROR, 2, 255}
\* payload bytes
PayloadBytes == {65, 200}

\* length bytes 1..3 of an AVR meta-request, whose payload is never relayed:
\* sizes with bit 15 and with bit 24 set
MetaSizeBytes(i) ==
    CASE i = 1 -> {0, 128}
      [] i = 2 -> {0}
      [] i = 3 -> {0, 1}

\* what: "type", "p", "p_size", "payload", "subop"; i: index into p_size
BeebBytes(what, i) ==
    CASE what = "type" ->
             {MakeType(v, c) : v \in {0, 1}, c \in RequestCodes}
                 \cup QuietRequests
      [] what = "p" ->
             IF ph["request"].t \in QuietRequests THEN {2} ELSE InlineBytes
      [] what = "subop" -> InlineBytes
      [] what = "p_size" ->
             IF i = 0 THEN 0..MaxPayload
             ELSE IF TypeC(ph["request"].t) = REQUEST_AVR THEN MetaSizeBytes(i)
             ELSE {0}
      [] what = "payload" -> PayloadBytes

HostBytes(what, i) ==
    CASE what = "type" -> {MakeType(v, c) : v \in {0, 1}, c \in ResponseCodes}
      [] what = "p" -> {0, 255}
      [] what = "p_size" -> IF i = 0 THEN 0..MaxPayload ELSE {0}
      [] what = "payload" -> PayloadBytes
      [] OTHER -> {}

---------------------------------------------------------------------------
(* The byte transports.  A call has a set of possible outcomes             *)
(* [err, value, ep, ectx, wire]: the Error it returns, the byte it stored  *)
(* through its pointer argument (Uninit when it stored nothing) and the    *)
(* transport state it leaves.                                              *)

Outcome(e, value, ep1, ectx1, wire1) ==
    [err |-> e, value |-> value, ep |-> ep1, ectx |-> ectx1, wire |-> wire1]

\* AckAndCheck returns Error_None or, when CB2 stayed low for more than ten
\* polls, Error_NoBeebHandshake - after the Beeb did complete the handshake
AckAndCheck == {None, NoBeebHandshake}

\* ReceiveByteFromBeeb storing PINB only after a prompt handshake
ReceiveByteFromBeebIfPrompt(what, i) ==
    {Outcome(e, IF e = None THEN b ELSE Uninit, ep, ectx, wire) :
        e \in AckAndCheck, b \in BeebBytes(what, i)}

\* ReceiveByteFromBeeb stores PINB before AckAndCheck, whatever it returns
ReceiveByteFromBeeb(what, i) ==
    {Outcome(e, b, ep, ectx, wire) : e \in AckAndCheck, b \in BeebBytes(what, i)}

SendByteToBeeb(value) ==
    {Outcome(e, value, ep, ectx, wire) : e \in AckAndCheck}

\* the do-while of WaitUntilEndpointReady over the results rs that
\* Endpoint_WaitUntilReady returns in turn: the result it leaves the loop
\* with, "Spin" when rs ends while it is still looping
RECURSIVE LastWaitResult(_)
LastWaitResult(rs) ==
    IF rs = <<>> THEN "Spin"
    ELSE IF Head(rs) = "Timeout" THEN LastWaitResult(Tail(rs))
    ELSE Head(rs)

\* the switch without its case for the suspended bus
WaitResultErrorNoSuspend(r) ==
    CASE r = "NoError" -> None
      [] r = "EndpointStalled" -> USBEndpointStalled
      [] r = "DeviceDisconnected" -> USBDeviceDisconnected
      [] r = "Timeout" -> USBTimeout
      [] OTHER -> USB

\* the switch of WaitUntilEndpointReady
WaitResultError(r) ==
    CASE r = "NoError" -> None
      [] r = "EndpointStalled" -> USBEndpointStalled
      [] r = "DeviceDisconnected" -> USBDeviceDisconnected
      [] r = "BusSuspended" -> USBBusSuspended
      [] r = "Timeout" -> USBTimeout
      [] OTHER -> USB

WaitUntilEndpointReady(rs) ==
    LET r == LastWaitResult(rs)
    IN  IF r = "Spin" THEN "Spin" ELSE WaitResultError(r)

WaitSeqs == UNION {[1..n -> READYWAIT] : n \in 1..MaxWaits}

\* the Errors a call of WaitUntilEndpointReady can return
WaitErrors == {WaitUntilEndpointReady(rs) : rs \in WaitSeqs} \ {"Spin"}

\* the runs of results one call of WaitUntilEndpointReady consumes: timeouts,
\* then the result that ends the do-while
WaitRuns ==
    {rs \in WaitSeqs :
        /\ LastWaitResult(rs) # "Spin"
        /\ \A k \in 1..(Len(rs) - 1) : LastWaitResult(SubSeq(rs, 1, k)) = "Spin"}

\* ep.waited keeps, for the call of ReceiveByteFromHost or SendByteToHost
\* that ran last, the results its Endpoint_WaitUntilReady calls returned
Waited(e, rs) == [e EXCEPT !.waited = rs]

\* Endpoint_IsReadWriteAllowed on the OUT endpoint: the bank holds unread
\* bytes; on the IN endpoint: the bank is free and not yet full
OutAllowed(e) == e.outBank > 0
InAllowed(e) == e.inReady /\ e.inBank < BankSize

\* ep.ops keeps, for the same call, the endpoint primitives it executed in
\* order, and ep.level the number of bytes its Endpoint_Read_8 or
\* Endpoint_Write_8 found in the bank (Uninit when it did neither)
Did(e, op) == [e EXCEPT !.ops = Append(e.ops, op)]
Entered(e) == [e EXCEPT !.waited = <<>>, !.ops = <<>>, !.level = Uninit]
Endpoint_WaitUntilReady(e, rs) == Did(Waited(e, rs), "Endpoint_WaitUntilReady")
Endpoint_Read_8(e) ==
    Did([e EXCEPT !.level = e.outBank, !.outBank = e.outBank - 1],
        "Endpoint_Read_8")
Endpoint_ClearOUT(e) == Did(e, "Endpoint_ClearOUT")
Endpoint_ClearIN(e) ==
    Did([e EXCEPT !.inBank = 0, !.inReady = FALSE], "Endpoint_ClearIN")
Endpoint_Write_8(e) ==
    Did([e EXCEPT !.level = e.inBank, !.inBank = e.inBank + 1],
        "Endpoint_Write_8")

\* ReceiveByteFromHost reading without the wait for a packet
ReceiveByteFromHostNoWait(what, i) ==
    LET e1 == Endpoint_Read_8(Entered(ep))
        e2 == IF OutAllowed(e1) THEN e1
              ELSE Endpoint_ClearOUT([e1 EXCEPT !.outBank = 0])
    IN  {Outcome(None, b, e2, ectx, wire) : b \in HostBytes(what, i)}

\* ReceiveByteFromHost: wait for a packet if the bank is exhausted, read one
\* byte, Endpoint_ClearOUT once the bank is drained; a packet that arrives
\* holds 1..BankSize bytes
ReceiveByteFromHost(what, i) ==
    LET ok == {rs \in WaitRuns : WaitUntilEndpointReady(rs) = None}
        failed == IF OutAllowed(ep) THEN {}
                  ELSE {Outcome(WaitUntilEndpointReady(rs), Uninit,
                                Endpoint_WaitUntilReady(Entered(ep), rs),
                                ectx, wire) :
                            rs \in WaitRuns \ ok}
        before == IF OutAllowed(ep) THEN {Entered(ep)}
                  ELSE {[Endpoint_WaitUntilReady(Entered(ep), rs)
                            EXCEPT !.outBank = m] :
                            rs \in ok, m \in 1..BankSize}
        after(e) == IF OutAllowed(Endpoint_Read_8(e)) THEN Endpoint_Read_8(e)
                    ELSE Endpoint_ClearOUT(Endpoint_Read_8(e))
        read == {Outcome(None, b, after(e), ectx, wire) :
                     b \in HostBytes(what, i), e \in before}
    IN  failed \cup read

\* SendByteToHost: if the bank is not writable, Endpoint_ClearIN and wait;
\* then Endpoint_Write_8
SendByteToHost(value) ==
    LET cleared == Endpoint_ClearIN(Entered(ep))
        ok == {rs \in WaitRuns : WaitUntilEndpointReady(rs) = None}
        failed == IF InAllowed(ep) THEN {}
                  ELSE {Outcome(WaitUntilEndpointReady(rs), value,
                                Endpoint_WaitUntilReady(cleared, rs),
                                ectx, wire) :
                            rs \in WaitRuns \ ok}
        before == IF InAllowed(ep) THEN {Entered(ep)}
                  ELSE {[Endpoint_WaitUntilReady(cleared, rs)
                            EXCEPT !.inReady = TRUE] :
                            rs \in ok}
        written == {Outcome(None, value, Endpoint_Write_8(e), ectx, wire) :
                        e \in before}
    IN  failed \cup written

\* pgm_read_byte(text_ps+k)
TextByte(text, k) ==
    IF k < Len(text) THEN text[k + 1]
    ELSE IF k = Len(text) THEN 0
    ELSE PastEnd

\* ReceiveErrorByte
ReceiveErrorByte ==
    LET value == IF ectx.index = 0 THEN 0
                 ELSE IF ectx.index = 1 THEN ectx.code
                 ELSE TextByte(ectx.text_ps, ectx.index - 2)
    IN  {Outcome(None, value, ep, [ectx EXCEPT !.index = ectx.index + 1], wire)}

\* the loopback queue of the codec specification
SendByteToWire(value) ==
    {Outcome(None, value, ep, ectx, Append(wire, value))}
ReceiveByteFromWire ==
    IF wire = <<>> THEN {}
    ELSE {Outcome(None, Head(wire), ep, ectx, Tail(wire))}

\* the source and the sink of the relay comparison: the n-th byte of the
\* source is SourceByte(n); the call that is the runs.failAt-th of the run
\* returns runs.failErr and moves nothing, every other call returns
\* Error_None
SourceByte(n) == (7 * n + 30) % 256
Injected == IF Len(trace) + 1 = runs.failAt THEN runs.failErr ELSE None
ReceiveByteFromSource ==
    LET n == Cardinality({k \in 1..Len(trace) :
                             trace[k].op = "ReceiveByteFromSource"})
    IN  {Outcome(Injected, IF Injected = None THEN SourceByte(n) ELSE Uninit,
                 ep, ectx, wire)}
SendByteToSink(value) == {Outcome(Injected, value, ep, ectx, wire)}

\* (*recv_fn)(&x,recv_context); a call through the NULL recv_fn leaves the
\* program: it is kept as an outcome that is no Error
Recv(recv_fn, what, i) ==
    CASE recv_fn = "ReceiveByteFromBeeb" -> ReceiveByteFromBeeb(what, i)
      [] recv_fn = "ReceiveByteFromHost" -> ReceiveByteFromHost(what, i)
      [] recv_fn = "ReceiveErrorByte" -> ReceiveErrorByte
      [] recv_fn = "ReceiveByteFromWire" -> ReceiveByteFromWire
      [] recv_fn = "ReceiveByteFromSource" -> ReceiveByteFromSource
      [] recv_fn = "NULL" -> {Outcome("NullCall", Uninit, ep, ectx, wire)}

\* (*send_fn)(value,send_context)
Send(send_fn, value) ==
    CASE send_fn = "SendByteToBeeb" -> SendByteToBeeb(value)
      [] send_fn = "SendByteToHost" -> SendByteToHost(value)
      [] send_fn = "SendByteToWire" -> SendByteToWire(value)
      [] send_fn = "SendByteToSink" -> SendByteToSink(value)

\* one entry of the history: the transport function or stall that ran, for
\* whom (by, site), which byte of the packet it moved (what), the byte, the
\* Error and the endpoint then selected
Event(op, by, site, what, o) ==
    [op |-> op, by |-> by, site |-> site, what |-> what, val |-> o.value,
     err |-> o.err, sel |-> ep.selected]

\* MainLoop's local waiting_message_printed as declared at line 774, and no
\* "waiting" message printed yet in this iteration
NoWaiting == [waiting_message_printed |-> 0, wait_for_bbc_msg |-> 0]

\* the loop of WaitForBeebReady printing without a look at the flag
WaitForBeebReadyUnflagged(context, wrapped) ==
    IF context # "NULL" /\ wrapped
    THEN [waiting_message_printed |-> 1,
          wait_for_bbc_msg |-> waiting.wait_for_bbc_msg + 1]
    ELSE waiting

\* lines 146-164, what one call leaves of the flag behind context: wrapped
\* says that the Beeb kept the loop going until counter came round to 0;
\* the message is printed then if the flag is clear, and the flag is set
WaitForBeebReady(context, wrapped) ==
    IF context # "NULL" /\ wrapped /\ waiting.waiting_message_printed = 0
    THEN [waiting_message_printed |-> 1,
          wait_for_bbc_msg |-> waiting.wait_for_bbc_msg + 1]
    ELSE waiting

\* the recv_context of the ReceivePacketHeader call in progress:
\* &waiting_message_printed for the request header (line 786), NULL for the
\* response header (line 844)
recv_context ==
    IF rph.ph = "request" THEN "waiting_message_printed" ELSE "NULL"

\* ReceiveByteFromBeeb hands its context to WaitForBeebReady (line 212);
\* ReceiveByteFromHost has no use for it
HeaderWait ==
    \E wrapped \in BOOLEAN :
        waiting' = IF rph.recv_fn = "ReceiveByteFromBeeb"
                   THEN WaitForBeebReady(recv_context, wrapped)
                   ELSE waiting

---------------------------------------------------------------------------
(* ReceivePacketHeader.  rph is its frame: ph names the PacketHeader it    *)
(* fills, i counts the length bytes, ret is where it returns to.           *)

\* no runs to compare: the specification is not a comparison
NoRuns ==
    [todo |-> <<>>, done |-> <<>>, replay |-> <<>>, failAt |-> 0,
     failErr |-> None]

\* in a run that repeats an earlier one (runs.replay holds its history) the
\* peers behave as they did then: where the run makes the call the earlier
\* run made at this point, the call returns the same Error and a receive
\* yields the same byte
Replayed(op, what, o) ==
    LET k == Len(trace) + 1
    IN  (/\ k <= Len(runs.replay)
         /\ runs.replay[k].op = op
         /\ runs.replay[k].what = what) =>
            /\ o.err = runs.replay[k].err
            /\ op \in {"ReceiveByteFromBeeb", "ReceiveByteFromHost"} =>
                   o.value = runs.replay[k].val

\* the transport state an outcome leaves, and the entry in the history
Transported(op, by, site, what, o) ==
    /\ Replayed(op, what, o)
    /\ ep' = o.ep
    /\ ectx' = o.ectx
    /\ wire' = o.wire
    /\ trace' = Append(trace, Event(op, by, site, what, o))

\* what the pointer argument of a receive function holds after the call
Stored(old, o) == IF o.value = Uninit THEN old ELSE o.value

\* "Minor fudge": a late handshake on the type byte is reported as a reset
TypeByteError(receiving_from_beeb, e) ==
    IF receiving_from_beeb = 1 /\ e = NoBeebHandshake THEN Reset ELSE e

\* the presence check recognised by the whole type byte, flag included
IsPresenceCheckAll(receiving_from_beeb, t) ==
    receiving_from_beeb = 1 /\ t = REQUEST_AVR_PRESENCE

\* the presence check not recognised by ReceivePacketHeader
IsPresenceCheckNever(receiving_from_beeb, t) == FALSE

\* the presence check is recognised on the Beeb side only
IsPresenceCheck(receiving_from_beeb, t) ==
    receiving_from_beeb = 1 /\ TypeC(t) = REQUEST_AVR_PRESENCE

CallReceivePacketHeader(name, recv_fn, receiving_from_beeb, ret) ==
    rph' = [ph |-> name, recv_fn |-> recv_fn,
            receiving_from_beeb |-> receiving_from_beeb, i |-> 0, ret |-> ret]

\* lines 376-402: the type byte
ReceivePacketHeaderType ==
    /\ pc = "RPH_type"
    /\ \E o \in Recv(rph.recv_fn, "type", 0) :
         /\ Transported(rph.recv_fn, "ReceivePacketHeader", rph.ret, "type", o)
         /\ ph' = [ph EXCEPT ![rph.ph].t = Stored(@, o)]
         /\ IF o.err # None
            THEN /\ err' = TypeByteError(rph.receiving_from_beeb, o.err)
                 /\ pc' = rph.ret
            ELSE IF IsPresenceCheck(rph.receiving_from_beeb, o.value)
            THEN /\ err' = None
                 /\ pc' = rph.ret
            ELSE /\ err' = err
                 /\ pc' = IF TypeV(o.value) = 1 THEN "RPH_p_size" ELSE "RPH_p"
    /\ HeaderWait
    /\ UNCHANGED <<rph, fwd, avr_p, g_last_request_type, sz,
                   line, serial, spin, runs>>

\* ReceivePacketHeader reading three length bytes
ReceiveSizeLoopShort(i) == i < 3

\* the loop over the four length bytes, line 398
ReceiveSizeLoop(i) == i < 4

\* lines 398-403: one length byte
ReceivePacketHeaderSize ==
    /\ pc = "RPH_p_size"
    /\ \E o \in Recv(rph.recv_fn, "p_size", rph.i) :
         /\ Transported(rph.recv_fn, "ReceivePacketHeader", rph.ret, "p_size", o)
         /\ ph' = [ph EXCEPT ![rph.ph].p_size[rph.i + 1] = Stored(@, o)]
         /\ IF o.err # None
            THEN /\ err' = o.err
                 /\ pc' = rph.ret
                 /\ rph' = rph
            ELSE /\ rph' = [rph EXCEPT !.i = rph.i + 1]
                 /\ IF ReceiveSizeLoop(rph.i + 1)
                    THEN /\ err' = err
                         /\ pc' = "RPH_p_size"
                    ELSE /\ err' = None
                         /\ pc' = rph.ret
    /\ HeaderWait
    /\ UNCHANGED <<fwd, avr_p, g_last_request_type, sz,
                   line, serial, spin, runs>>

\* lines 405-413: the inline payload byte
ReceivePacketHeaderP ==
    /\ pc = "RPH_p"
    /\ \E o \in Recv(rph.recv_fn, "p", 0) :
         /\ Transported(rph.recv_fn, "ReceivePacketHeader", rph.ret, "p", o)
         /\ ph' = [ph EXCEPT ![rph.ph].p = Stored(@, o)]
         /\ err' = o.err
         /\ pc' = rph.ret
    /\ HeaderWait
    /\ UNCHANGED <<rph, fwd, avr_p, g_last_request_type, sz,
                   line, serial, spin, runs>>

\* lines 439-455
IsVerboseRequestType(t) ==
    TypeC(t) \notin {REQUEST_READ_STRING, REQUEST_OSBGET, REQUEST_OSBPUT,
                     REQUEST_OSFILE, REQUEST_OSGBPB}

\* lines 460-466, for a request that is not NULL
IsVerboseRequest(h) == IsVerboseRequestType(h.t)

\* lines 460-466, for the pointer request_ph, which may be NULL
IsVerboseRequestOf(request_ph) ==
    IF request_ph = "NULL" THEN 0
    ELSE IF IsVerboseRequest(ph[request_ph]) THEN 1 ELSE 0

\* line 471
MAX_NUM_DUMP_BYTES == 50

\* p_size>k and p_size-k in uint32_t, for k below 2^16
U32Greater(n, k) == n.hi > 0 \/ n.lo > k
U32Sub(n, k) ==
    IF n.lo >= k THEN U32(n.hi, n.lo - k)
    ELSE U32((n.hi + 65535) % 65536, n.lo + 65536 - k)

\* lines 522-531: the payload is past the dump threshold and byte i is the
\* first that is not traced - Elides - or the first that is traced again
Elides(i, p_size) ==
    U32Greater(p_size, MAX_NUM_DUMP_BYTES) /\ i = MAX_NUM_DUMP_BYTES \div 2
Restarts(i, p_size) ==
    /\ U32Greater(p_size, MAX_NUM_DUMP_BYTES)
    /\ ~Elides(i, p_size)
    /\ U32(0, i) = U32Sub(p_size, MAX_NUM_DUMP_BYTES \div 2)

\* verbose as the if-chain of lines 522-531 leaves it for byte i
Verbose(i, p_size, verbose, initially_verbose) ==
    IF Elides(i, p_size) THEN 0
    ELSE IF Restarts(i, p_size) THEN initially_verbose
    ELSE verbose

---------------------------------------------------------------------------
(* SendPacketHeaderAndForwardPayload.  fwd is its frame: response_ph names *)
(* the header it sends, i is the loop counter, x the byte in flight.       *)

\* the frame before a call: no local is declared yet; dumped and elided count
\* the payload bytes traced on the serial port and the "eliding" messages
NoCall ==
    [request_ph |-> "NULL", response_ph |-> "local", send_fn |-> "NULL",
     recv_fn |-> "NULL", i |-> 0, x |-> Uninit, p_size |-> U32(0, 0),
     initially_verbose |-> Uninit, verbose |-> Uninit,
     v_end |-> Uninit, v_restart |-> Uninit, loop |-> "none",
     dumped |-> 0, elided |-> 0, ret |-> "main"]

\* lines 479-486: the call, with its arguments in a fresh frame
CallSendPacketHeaderAndForwardPayload(request_ph, name, send_fn, recv_fn, ret) ==
    fwd' = [NoCall EXCEPT !.request_ph = request_ph, !.response_ph = name,
                          !.send_fn = send_fn, !.recv_fn = recv_fn,
                          !.ret = ret]

\* the payload loop stopping one byte short
PayloadLoopShort(i, p_size) == U32Less(i + 1, p_size)

\* the condition of the payload loop, line 516
PayloadLoop(i, p_size) == U32Less(i, p_size)

\* the branch on response_ph->t.bits.v, line 493
IsVariable(t) == TypeV(t) = 1

\* the engine sending on a byte other than the one it received
PayloadValueOff(x) == (x + 1) % 256

\* the byte the engine hands to send_fn for a payload byte x, line 566
PayloadValue(x) == x

\* the engine sending three length bytes
SendSizeLoopShort(i) == i < 3

\* the loop over the four length bytes, line 494
SendSizeLoop(i) == i < 4

\* the length bytes sent most significant first
SizeByteReversed(p_size, i) == p_size[4 - i]

\* response_ph->p_size[i], line 495
SizeByte(p_size, i) == p_size[i + 1]

\* the engine taking a late handshake for a success
AbortsUnlessLate(e) == e \notin {None, NoBeebHandshake}

\* err!=Error_None after a call of send_fn or recv_fn: the engine returns
Aborts(e) == e # None

\* lines 488-493: the type byte
FwdSendType ==
    /\ pc = "Fwd_type"
    /\ \E o \in Send(fwd.send_fn, ph[fwd.response_ph].t) :
         /\ Transported(fwd.send_fn, "SendPacketHeaderAndForwardPayload",
                        fwd.ret, "type", o)
         /\ IF Aborts(o.err)
            THEN /\ err' = o.err
                 /\ pc' = fwd.ret
            ELSE /\ err' = err
                 /\ pc' = IF IsVariable(ph[fwd.response_ph].t)
                          THEN "Fwd_p_size" ELSE "Fwd_p"
    /\ UNCHANGED <<ph, rph, fwd, avr_p, g_last_request_type, sz,
                   line, serial, spin, waiting, runs>>

\* lines 494-516: one length byte; after the fourth, GetPayloadSize, the two
\* verbose flags and the first test of the payload loop
FwdSendSize ==
    /\ pc = "Fwd_p_size"
    /\ \E o \in Send(fwd.send_fn, SizeByte(ph[fwd.response_ph].p_size, fwd.i)) :
         /\ Transported(fwd.send_fn, "SendPacketHeaderAndForwardPayload",
                        fwd.ret, "p_size", o)
         /\ IF Aborts(o.err)
            THEN /\ err' = o.err
                 /\ pc' = fwd.ret
                 /\ fwd' = fwd
            ELSE IF SendSizeLoop(fwd.i + 1)
            THEN /\ err' = err
                 /\ pc' = "Fwd_p_size"
                 /\ fwd' = [fwd EXCEPT !.i = fwd.i + 1]
            ELSE LET p_size == GetPayloadSize(ph[fwd.response_ph].p_size)
                     verbose == IsVerboseRequestOf(fwd.request_ph)
                 IN  /\ fwd' = [fwd EXCEPT !.i = 0, !.p_size = p_size,
                                           !.initially_verbose = verbose,
                                           !.verbose = verbose]
                     /\ IF PayloadLoop(0, p_size)
                        THEN /\ err' = err
                             /\ pc' = "Fwd_recv"
                        ELSE /\ err' = None
                             /\ pc' = fwd.ret
    /\ UNCHANGED <<ph, rph, avr_p, g_last_request_type, sz,
                   line, serial, spin, waiting, runs>>

\* the engine not receiving the byte at which it prints the eliding message
FwdRecvElided ==
    /\ pc = "Fwd_recv"
    /\ LET verbose == Verbose(fwd.i, fwd.p_size, fwd.verbose,
                              fwd.initially_verbose)
           eliding == Elides(fwd.i, fwd.p_size) /\ fwd.verbose = 1
       IN  IF eliding
           THEN /\ fwd' = [fwd EXCEPT !.verbose = verbose, !.elided = @ + 1]
                /\ pc' = "Fwd_send"
                /\ UNCHANGED <<err, ep, ectx, wire, trace>>
           ELSE \E o \in Recv(fwd.recv_fn, "payload", 0) :
                  /\ Transported(fwd.recv_fn,
                                 "SendPacketHeaderAndForwardPayload",
                                 fwd.ret, "payload", o)
                  /\ fwd' = [fwd EXCEPT !.x = Stored(@, o),
                                        !.verbose = verbose,
                                        !.dumped = @ + verbose]
                  /\ IF Aborts(o.err)
                     THEN /\ err' = o.err
                          /\ pc' = fwd.ret
                     ELSE /\ err' = err
                          /\ pc' = "Fwd_send"
    /\ UNCHANGED <<ph, rph, avr_p, g_last_request_type, sz,
                   line, serial, spin, waiting, runs>>

\* lines 519-550: the tracing window, the trace of byte i if it is traced,
\* and the receive of payload byte i
FwdRecv ==
    /\ pc = "Fwd_recv"
    /\ \E o \in Recv(fwd.recv_fn, "payload", 0) :
         /\ Transported(fwd.recv_fn, "SendPacketHeaderAndForwardPayload",
                        fwd.ret, "payload", o)
         /\ LET verbose == Verbose(fwd.i, fwd.p_size, fwd.verbose,
                                   fwd.initially_verbose)
                eliding == Elides(fwd.i, fwd.p_size) /\ fwd.verbose = 1
            IN  fwd' = [fwd EXCEPT !.x = Stored(@, o),
                                   !.verbose = verbose,
                                   !.dumped = @ + verbose,
                                   !.elided = @ + IF eliding THEN 1 ELSE 0]
         /\ IF Aborts(o.err)
            THEN /\ err' = o.err
                 /\ pc' = fwd.ret
            ELSE /\ err' = err
                 /\ pc' = "Fwd_send"
    /\ UNCHANGED <<ph, rph, avr_p, g_last_request_type, sz,
                   line, serial, spin, waiting, runs>>

\* lines 566-576 and 516: send payload byte i, ++i, test the loop again
FwdSend ==
    /\ pc = "Fwd_send"
    /\ \E o \in Send(fwd.send_fn, PayloadValue(fwd.x)) :
         /\ Transported(fwd.send_fn, "SendPacketHeaderAndForwardPayload",
                        fwd.ret, "payload", o)
         /\ IF Aborts(o.err)
            THEN /\ err' = o.err
                 /\ pc' = fwd.ret
                 /\ fwd' = fwd
            ELSE /\ fwd' = [fwd EXCEPT !.i = fwd.i + 1, !.x = Uninit]
                 /\ IF PayloadLoop(fwd.i + 1, fwd.p_size)
                    THEN /\ err' = err
                         /\ pc' = "Fwd_recv"
                    ELSE /\ err' = None
                         /\ pc' = fwd.ret
    /\ UNCHANGED <<ph, rph, avr_p, g_last_request_type, sz,
                   line, serial, spin, waiting, runs>>

\* the engine falling from the inline byte into the payload loop
FwdSendPFallThrough ==
    /\ pc = "Fwd_p"
    /\ \E o \in Send(fwd.send_fn, ph[fwd.response_ph].p) :
         /\ Transported(fwd.send_fn, "SendPacketHeaderAndForwardPayload",
                        fwd.ret, "p", o)
         /\ IF Aborts(o.err)
            THEN /\ err' = o.err
                 /\ pc' = fwd.ret
            ELSE /\ err' = err
                 /\ pc' = "Fwd_recv"
    /\ UNCHANGED <<ph, rph, fwd, avr_p, g_last_request_type, sz,
                   line, serial, spin, waiting, runs>>

\* lines 577-584: the inline payload byte of a fixed-size header
FwdSendP ==
    /\ pc = "Fwd_p"
    /\ \E o \in Send(fwd.send_fn, ph[fwd.response_ph].p) :
         /\ Transported(fwd.send_fn, "SendPacketHeaderAndForwardPayload",
                        fwd.ret, "p", o)
         /\ err' = o.err
         /\ pc' = fwd.ret
    /\ UNCHANGED <<ph, rph, fwd, avr_p, g_last_request_type, sz,
                   line, serial, spin, waiting, runs>>

---------------------------------------------------------------------------
(* SendErrorToBeeb and HandleRequestAVR.                                   *)

\* SendErrorToBeeb declaring one payload byte too many
SendErrorToBeebOneMore(code, text_ps) ==
    /\ ph' = [ph EXCEPT !["local"] =
                 [t |-> MakeType(1, RESPONSE_ERROR), p |-> Uninit,
                  p_size |-> SetPayloadSize(U32(0, 1 + 1 + Len(text_ps) + 2))]]
    /\ ectx' = [code |-> code, text_ps |-> text_ps, index |-> 0]
    /\ CallSendPacketHeaderAndForwardPayload("NULL", "local", "SendByteToBeeb",
                                             "ReceiveErrorByte", "ML_avr")
    /\ pc' = "Fwd_type"

\* lines 639-651: the local header, the context of ReceiveErrorByte and the
\* call of the engine, whose result HandleRequestAVR hands on to MainLoop
SendErrorToBeeb(code, text_ps) ==
    /\ ph' = [ph EXCEPT !["local"] =
                 [t |-> MakeType(1, RESPONSE_ERROR), p |-> Uninit,
                  p_size |-> SetPayloadSize(U32(0, 1 + 1 + Len(text_ps) + 1))]]
    /\ ectx' = [code |-> code, text_ps |-> text_ps, index |-> 0]
    /\ CallSendPacketHeaderAndForwardPayload("NULL", "local", "SendByteToBeeb",
                                             "ReceiveErrorByte", "ML_avr")
    /\ pc' = "Fwd_type"

\* uint8_t ready=1, line 686; the checks that could clear it are commented out
ready == 1

\* the ready response without its .p initialiser
SendReadyNoVersion ==
    /\ ph' = [ph EXCEPT !["local"] =
                 [t |-> MakeType(0, IF ready = 1 THEN RESPONSE_YES
                                               ELSE RESPONSE_NO),
                  p |-> 0, p_size |-> <<0, 0, 0, 0>>]]
    /\ ectx' = ectx
    /\ CallSendPacketHeaderAndForwardPayload("NULL", "local", "SendByteToBeeb",
                                             "NULL", "ML_avr")
    /\ pc' = "Fwd_type"

\* lines 713-724: the ready response, the members of ph that the initialiser
\* does not name being zero
SendReady ==
    /\ ph' = [ph EXCEPT !["local"] =
                 [t |-> MakeType(0, IF ready = 1 THEN RESPONSE_YES
                                               ELSE RESPONSE_NO),
                  p |-> AVR_PROTOCOL_VERSION, p_size |-> <<0, 0, 0, 0>>]]
    /\ ectx' = ectx
    /\ CallSendPacketHeaderAndForwardPayload("NULL", "local", "SendByteToBeeb",
                                             "NULL", "ML_avr")
    /\ pc' = "Fwd_type"

\* lines 663-678, up to the call that fetches the sub-opcode
HandleRequestAVR ==
    /\ pc = "AVR"
    /\ IF IsVariable(ph["request"].t)
       THEN IF GetPayloadSize(ph["request"].p_size) # U32(0, 1)
            THEN /\ SendErrorToBeeb(255, BadPayloadSizeText)
                 /\ avr_p' = avr_p
            ELSE /\ pc' = "AVR_recv"
                 /\ UNCHANGED <<ph, ectx, fwd, avr_p>>
       ELSE /\ avr_p' = ph["request"].p
            /\ pc' = "AVR_switch"
            /\ UNCHANGED <<ph, ectx, fwd>>
    /\ UNCHANGED <<err, rph, ep, g_last_request_type, trace, wire, sz,
                   line, serial, spin, waiting, runs>>

\* HandleRequestAVR going on to the switch after a failed receive
HandleRequestAVRRecvUnchecked ==
    /\ pc = "AVR_recv"
    /\ \E o \in ReceiveByteFromBeeb("subop", 0) :
         /\ Transported("ReceiveByteFromBeeb", "HandleRequestAVR", "ML_avr", "subop", o)
         /\ avr_p' = o.value
         /\ err' = err
         /\ pc' = "AVR_switch"
    /\ UNCHANGED <<ph, rph, fwd, g_last_request_type, sz,
                   line, serial, spin, waiting, runs>>

\* lines 672-675: the sub-opcode of the 1-byte variable payload
HandleRequestAVRRecv ==
    /\ pc = "AVR_recv"
    /\ \E o \in ReceiveByteFromBeeb("subop", 0) :
         /\ Transported("ReceiveByteFromBeeb", "HandleRequestAVR", "ML_avr", "subop", o)
         /\ avr_p' = o.value
         /\ IF o.err # None
            THEN /\ err' = o.err
                 /\ pc' = "ML_avr"
            ELSE /\ err' = err
                 /\ pc' = "AVR_switch"
    /\ UNCHANGED <<ph, rph, fwd, g_last_request_type, sz,
                   line, serial, spin, waiting, runs>>

\* the switch with its default label on the ready case
HandleRequestAVRSwitchDefaultReady ==
    /\ pc = "AVR_switch"
    /\ CASE avr_p = REQUEST_AVR_ERROR -> SendErrorToBeeb(255, AsRequestedText)
         [] OTHER -> SendReady
    /\ UNCHANGED <<err, rph, avr_p, ep, g_last_request_type, trace, wire, sz,
                   line, serial, spin, waiting, runs>>

\* lines 680-729: the switch on the sub-opcode
HandleRequestAVRSwitch ==
    /\ pc = "AVR_switch"
    /\ CASE avr_p = REQUEST_AVR_READY -> SendReady
         [] avr_p = REQUEST_AVR_ERROR -> SendErrorToBeeb(255, AsRequestedText)
         [] OTHER -> SendErrorToBeeb(255, BadPayloadText)
    /\ UNCHANGED <<err, rph, avr_p, ep, g_last_request_type, trace, wire, sz,
                   line, serial, spin, waiting, runs>>

---------------------------------------------------------------------------
(* MainLoop, and the for(;;) of main that calls it.                        *)


NoContext == [code |-> 0, text_ps |-> <<>>, index |-> 0]

\* the bytes a read of storage that was never assigned may yield
Indeterminate == {0, 255}

ReadOf(stored) == IF stored = Uninit THEN Indeterminate ELSE {stored}

\* lines 334-359: what serial_PacketHeader prints for header h - the type,
\* then the length bytes if the flag is set and the inline byte if not;
\* assigned tells whether the field it read had been received or assigned
serial_PacketHeader(prefix, h) ==
    IF IsVariable(h.t)
    THEN {[prefix |-> prefix, t |-> h.t, field |-> "p_size",
           assigned |-> \A k \in 1..4 : h.p_size[k] # Uninit,
           val |-> <<b0, b1, b2, b3>>] :
              b0 \in ReadOf(h.p_size[1]), b1 \in ReadOf(h.p_size[2]),
              b2 \in ReadOf(h.p_size[3]), b3 \in ReadOf(h.p_size[4])}
    ELSE {[prefix |-> prefix, t |-> h.t, field |-> "p",
           assigned |-> h.p # Uninit, val |-> <<b>>] : b \in ReadOf(h.p)}

\* SERIAL_PACKET_HEADER under if(IsVerboseRequest(&request))
SerialPacketHeader(prefix, h) ==
    IF IsVerboseRequest(ph["request"])
    THEN \E l \in serial_PacketHeader(prefix, h) : serial' = Append(serial, l)
    ELSE serial' = serial

\* lines 832-834: the flush of a half-filled device->host packet
FlushEvent ==
    [op |-> "Endpoint_ClearIN", by |-> "MainLoop",
     site |-> "ML_request_forwarded", what |-> "flush", val |-> Uninit,
     err |-> None, sel |-> ep.selected]

StallEvent(op, site) ==
    [op |-> op, by |-> "MainLoop", site |-> site, what |-> "stall",
     val |-> Uninit, err |-> err, sel |-> ep.selected]

\* Endpoint_ClearIN hands the bank to the host: it is empty, and writable
\* again at once or only after a wait, as the host and the second bank allow
ClearIN(e) == {[e EXCEPT !.inBank = 0, !.inReady = r] : r \in BOOLEAN}

\* lines 748-752
StallDeviceToHost(site) ==
    /\ trace' = Append(trace, StallEvent("StallDeviceToHost", site))
    /\ ep' \in ClearIN(ep)

\* the response phases stalling the device->host direction
StallWrongDirection(site) == StallDeviceToHost(site)

\* lines 757-759
StallHostToDevice(site) ==
    /\ trace' = Append(trace, StallEvent("StallHostToDevice", site))
    /\ ep' = ep

\* MainLoop without Endpoint_SelectEndpoint(EA_INPUT)
MainLoopBeginNoSelect ==
    /\ pc = "main"
    /\ ep' = Entered(ep)
    /\ g_last_request_type' = 0
    /\ ph' = [n \in DOMAIN ph |-> NoHeader]
    /\ CallReceivePacketHeader("request", "ReceiveByteFromBeeb", 1,
                               "ML_request_header")
    /\ fwd' = NoCall
    /\ avr_p' = Uninit
    /\ ectx' = NoContext
    /\ err' = None
    /\ trace' = <<>>
    /\ serial' = <<>>
    /\ pc' = "RPH_type"
    /\ waiting' = IF IsVerboseRequestType(g_last_request_type)
                  THEN [waiting_message_printed |-> 1, wait_for_bbc_msg |-> 1]
                  ELSE NoWaiting
    /\ UNCHANGED <<wire, sz,
                   line, spin, runs>>

\* MainLoop leaving the memo as it found it
MainLoopBeginMemoKept ==
    /\ pc = "main"
    /\ ep' = Entered([ep EXCEPT !.selected = EA_INPUT])
    /\ g_last_request_type' = g_last_request_type
    /\ ph' = [n \in DOMAIN ph |-> NoHeader]
    /\ CallReceivePacketHeader("request", "ReceiveByteFromBeeb", 1,
                               "ML_request_header")
    /\ fwd' = NoCall
    /\ avr_p' = Uninit
    /\ ectx' = NoContext
    /\ err' = None
    /\ trace' = <<>>
    /\ serial' = <<>>
    /\ pc' = "RPH_type"
    /\ waiting' = IF IsVerboseRequestType(g_last_request_type)
                  THEN [waiting_message_printed |-> 1, wait_for_bbc_msg |-> 1]
                  ELSE NoWaiting
    /\ UNCHANGED <<wire, sz,
                   line, spin, runs>>

\* lines 764-787: a new iteration, up to the call of ReceivePacketHeader:
\* the "waiting" message if the memo is a verbose type, the memo cleared.
\* The locals of the iteration before are dead: they start out unassigned,
\* and the history (trace, and what ep keeps of the last host call) starts
\* anew.
MainLoopBegin ==
    /\ pc = "main"
    /\ ep' = Entered([ep EXCEPT !.selected = EA_INPUT])
    /\ g_last_request_type' = 0
    /\ ph' = [n \in DOMAIN ph |-> NoHeader]
    /\ CallReceivePacketHeader("request", "ReceiveByteFromBeeb", 1,
                               "ML_request_header")
    /\ fwd' = NoCall
    /\ avr_p' = Uninit
    /\ ectx' = NoContext
    /\ err' = None
    /\ trace' = <<>>
    /\ serial' = <<>>
    /\ pc' = "RPH_type"
    /\ waiting' = IF IsVerboseRequestType(g_last_request_type)
                  THEN [waiting_message_printed |-> 1, wait_for_bbc_msg |-> 1]
                  ELSE NoWaiting
    /\ UNCHANGED <<wire, sz,
                   line, spin, runs>>

\* does the switch of lines 804-818 keep the request from the host
IsMetaRequest(c) == c \in {REQUEST_AVR_PRESENCE, REQUEST_AVR}

\* lines 786-824: the request header is in, or failed
MainLoopRequestHeader ==
    /\ pc = "ML_request_header"
    /\ IF err # None
       THEN /\ IF err = Reset
               THEN UNCHANGED <<trace, ep>>
               ELSE StallDeviceToHost("ML_request_header")
            /\ pc' = "main"
            /\ UNCHANGED <<g_last_request_type, fwd, serial>>
       ELSE /\ g_last_request_type' = ph["request"].t
            /\ SerialPacketHeader("-- BBC Request: ", ph["request"])
            /\ UNCHANGED <<trace, ep>>
            /\ CASE TypeC(ph["request"].t) = REQUEST_AVR_PRESENCE ->
                      /\ pc' = "main"
                      /\ fwd' = fwd
                 [] TypeC(ph["request"].t) = REQUEST_AVR ->
                      /\ pc' = "AVR"
                      /\ fwd' = fwd
                 [] OTHER ->
                      /\ CallSendPacketHeaderAndForwardPayload(
                             "request", "request", "SendByteToHost",
                             "ReceiveByteFromBeeb", "ML_request_forwarded")
                      /\ pc' = "Fwd_type"
    /\ UNCHANGED <<err, ph, rph, avr_p, ectx, wire, sz,
                   line, spin, waiting, runs>>

\* lines 811-817: HandleRequestAVR returned; its Error is logged only
MainLoopAfterAVR ==
    /\ pc = "ML_avr"
    /\ pc' = "main"
    /\ UNCHANGED <<err, ph, rph, fwd, avr_p, ectx, ep, g_last_request_type,
                   trace, wire, sz,
                   line, serial, spin, waiting, runs>>

\* MainLoop going on to the response after a failed request relay
MainLoopRequestForwardedNoReturn ==
    /\ pc = "ML_request_forwarded"
    /\ IF err # None
       THEN /\ trace' = Append(trace, StallEvent("StallDeviceToHost",
                                                 "ML_request_forwarded"))
            /\ \E e \in ClearIN(ep) : ep' = [e EXCEPT !.selected = EA_OUTPUT]
       ELSE /\ \E e \in (IF ep.inBank > 0 THEN ClearIN(ep) ELSE {ep}) :
                 ep' = [e EXCEPT !.selected = EA_OUTPUT]
            /\ trace' = IF ep.inBank > 0 THEN Append(trace, FlushEvent)
                        ELSE trace
    /\ CallReceivePacketHeader("response", "ReceiveByteFromHost", 0,
                               "ML_response_header")
    /\ pc' = "RPH_type"
    /\ UNCHANGED <<err, ph, fwd, avr_p, ectx, g_last_request_type, wire, sz,
                   line, serial, spin, waiting, runs>>

\* MainLoop flushing the device->host bank only when it is half-filled
MainLoopRequestForwardedFullKept ==
    /\ pc = "ML_request_forwarded"
    /\ IF err # None
       THEN /\ StallDeviceToHost("ML_request_forwarded")
            /\ pc' = "main"
            /\ rph' = rph
       ELSE /\ \E e \in (IF ep.inBank > 0 /\ ep.inBank < BankSize
                          THEN ClearIN(ep) ELSE {ep}) :
                 ep' = [e EXCEPT !.selected = EA_OUTPUT]
            /\ trace' = IF ep.inBank > 0 /\ ep.inBank < BankSize
                        THEN Append(trace, FlushEvent) ELSE trace
            /\ CallReceivePacketHeader("response", "ReceiveByteFromHost", 0,
                                       "ML_response_header")
            /\ pc' = "RPH_type"
    /\ UNCHANGED <<err, ph, fwd, avr_p, ectx, g_last_request_type, wire, sz,
                   line, serial, spin, waiting, runs>>

\* lines 825-847: the request went to the host, or failed
MainLoopRequestForwarded ==
    /\ pc = "ML_request_forwarded"
    /\ IF err # None
       THEN /\ StallDeviceToHost("ML_request_forwarded")
            /\ pc' = "main"
            /\ rph' = rph
       ELSE /\ \E e \in (IF ep.inBank > 0 THEN ClearIN(ep) ELSE {ep}) :
                 ep' = [e EXCEPT !.selected = EA_OUTPUT]
            /\ trace' = IF ep.inBank > 0 THEN Append(trace, FlushEvent)
                        ELSE trace
            /\ CallReceivePacketHeader("response", "ReceiveByteFromHost", 0,
                                       "ML_response_header")
            /\ pc' = "RPH_type"
    /\ UNCHANGED <<err, ph, fwd, avr_p, ectx, g_last_request_type, wire, sz,
                   line, serial, spin, waiting, runs>>

\* MainLoop returning from a failed response header without the stall
MainLoopResponseHeaderNoStall ==
    /\ pc = "ML_response_header"
    /\ IF err # None
       THEN /\ pc' = "main"
            /\ UNCHANGED <<fwd, trace, ep, serial>>
       ELSE /\ SerialPacketHeader("-- PC Response: ", ph["response"])
            /\ CallSendPacketHeaderAndForwardPayload(
                   "request", "response", "SendByteToBeeb", "ReceiveByteFromHost",
                   "ML_response_forwarded")
            /\ pc' = "Fwd_type"
            /\ UNCHANGED <<trace, ep>>
    /\ UNCHANGED <<err, ph, rph, avr_p, ectx, g_last_request_type, wire, sz,
                   line, spin, waiting, runs>>

\* lines 848-862: the response header is in, or failed
MainLoopResponseHeader ==
    /\ pc = "ML_response_header"
    /\ IF err # None
       THEN /\ StallHostToDevice("ML_response_header")
            /\ pc' = "main"
            /\ UNCHANGED <<fwd, serial>>
       ELSE /\ SerialPacketHeader("-- PC Response: ", ph["response"])
            /\ CallSendPacketHeaderAndForwardPayload(
                   "request", "response", "SendByteToBeeb", "ReceiveByteFromHost",
                   "ML_response_forwarded")
            /\ pc' = "Fwd_type"
            /\ UNCHANGED <<trace, ep>>
    /\ UNCHANGED <<err, ph, rph, avr_p, ectx, g_last_request_type, wire, sz,
                   line, spin, waiting, runs>>

\* MainLoop never returning from a failed response relay
MainLoopResponseForwardedHangs ==
    /\ pc = "ML_response_forwarded"
    /\ IF err # None
       THEN /\ pc' = pc
            /\ spin' = 1 - spin
       ELSE /\ pc' = "main"
            /\ spin' = spin
    /\ UNCHANGED <<err, ph, rph, fwd, avr_p, ectx, ep, g_last_request_type,
                   trace, wire, sz, line, serial,
                   waiting, runs>>

\* MainLoop stalling both directions after a failed response relay
MainLoopResponseForwardedStallBoth ==
    /\ pc = "ML_response_forwarded"
    /\ IF err # None
       THEN /\ trace' = trace \o
                   <<StallEvent("StallHostToDevice", "ML_response_forwarded"),
                     StallEvent("StallDeviceToHost", "ML_response_forwarded")>>
            /\ ep' \in ClearIN(ep)
       ELSE UNCHANGED <<trace, ep>>
    /\ pc' = "main"
    /\ UNCHANGED <<err, ph, rph, fwd, avr_p, ectx, g_last_request_type,
                   wire, sz,
                   line, serial, spin, waiting, runs>>

\* lines 863-868: the response went to the Beeb, or failed
MainLoopResponseForwarded ==
    /\ pc = "ML_response_forwarded"
    /\ IF err # None
       THEN StallHostToDevice("ML_response_forwarded")
       ELSE UNCHANGED <<trace, ep>>
    /\ pc' = "main"
    /\ UNCHANGED <<err, ph, rph, fwd, avr_p, ectx, g_last_request_type,
                   wire, sz,
                   line, serial, spin, waiting, runs>>

---------------------------------------------------------------------------
(* The session specification: main after USB configuration.                *)

NoReceive ==
    [ph |-> "request", recv_fn |-> "NULL", receiving_from_beeb |-> 0,
     i |-> 0, ret |-> "main"]

\* what PINB reads while the Beeb is not presenting a byte
Floating == -3

\* lines 941-946: port B is an input with pull-ups, CB1 is driven high; the
\* fields from lows on are history: lows counts the polls of AckAndCheck that
\* found CB2 low before the first one that found it high (it stops at
\* Late), retry says that the loop about to be polled has completed an
\* iteration, tasked that this iteration called USB_USBTask
NoLine ==
    [fn |-> "none", context |-> "NULL", flag |-> 0, value |-> Uninit,
     DDRB |-> 0, PORTB |-> 255, PINB |-> Floating, CB1 |-> 1,
     counter |-> 0, loops |-> 0, result |-> None, glitches |-> 0,
     lows |-> 0, retry |-> FALSE, tasked |-> FALSE, log |-> <<>>]

Init ==
    /\ pc = "main"
    /\ err = None
    /\ ph = [n \in {"request", "response", "local"} |-> NoHeader]
    /\ rph = NoReceive
    /\ fwd = NoCall
    /\ avr_p = Uninit
    /\ ectx = NoContext
    /\ ep = [selected |-> EA_INPUT, inBank |-> 0, inReady |-> TRUE,
             outBank |-> 0, waited |-> <<>>,
             ops |-> <<>>, level |-> Uninit]
    /\ g_last_request_type = 0
    /\ trace = <<>>
    /\ wire = <<>>
    /\ sz = <<>>
    /\ line = NoLine
    /\ serial = <<>>
    /\ spin = 0
    /\ waiting = NoWaiting
    /\ runs = NoRuns

Next ==
    \/ MainLoopBegin
    \/ ReceivePacketHeaderType
    \/ ReceivePacketHeaderSize
    \/ ReceivePacketHeaderP
    \/ MainLoopRequestHeader
    \/ HandleRequestAVR
    \/ HandleRequestAVRRecv
    \/ HandleRequestAVRSwitch
    \/ MainLoopAfterAVR
    \/ FwdSendType
    \/ FwdSendSize
    \/ FwdRecv
    \/ FwdSend
    \/ FwdSendP
    \/ MainLoopRequestForwarded
    \/ MainLoopResponseHeader
    \/ MainLoopResponseForwarded

Spec == Init /\ [][Next]_vars

---------------------------------------------------------------------------
(* The session specification with its waits: between two transport calls  *)
(* the firmware may go round a spin-wait any number of times.  Weak        *)
(* fairness of the steps is the processor executing the next instruction.  *)

\* the receive and the send function the step at pc is about to call
RecvFn ==
    CASE pc \in {"RPH_type", "RPH_p_size", "RPH_p"} -> rph.recv_fn
      [] pc = "Fwd_recv" -> fwd.recv_fn
      [] pc = "AVR_recv" -> "ReceiveByteFromBeeb"
      [] OTHER -> "none"
SendFn ==
    CASE pc \in {"Fwd_type", "Fwd_p_size", "Fwd_send", "Fwd_p"} -> fwd.send_fn
      [] OTHER -> "none"

\* lines 149-163 and 181-193: one more round of WaitForBeebReady's loop or of
\* a loop of AckAndCheck, in the transport about to return: the Beeb has not
\* driven CB2 to the awaited level
WaitForBeebReadySpin ==
    /\ RecvFn = "ReceiveByteFromBeeb" \/ SendFn = "SendByteToBeeb"
    /\ spin' = 1 - spin
    /\ UNCHANGED <<pc, err, ph, rph, fwd, avr_p, ectx, ep,
                   g_last_request_type, trace, wire, sz, line, serial,
                   waiting, runs>>

\* lines 252-254: Endpoint_WaitUntilReady returned
\* ENDPOINT_READYWAIT_Timeout and the do-while goes round
WaitUntilEndpointReadyTimeout ==
    /\ \/ RecvFn = "ReceiveByteFromHost" /\ ~OutAllowed(ep)
       \/ SendFn = "SendByteToHost" /\ ~InAllowed(ep)
    /\ spin' = 1 - spin
    /\ UNCHANGED <<pc, err, ph, rph, fwd, avr_p, ectx, ep,
                   g_last_request_type, trace, wire, sz, line, serial,
                   waiting, runs>>

NextLive ==
    \/ Next
    \/ WaitForBeebReadySpin
    \/ WaitUntilEndpointReadyTimeout

SpecLive == Init /\ [][NextLive]_vars /\ WF_vars(NextLive)

---------------------------------------------------------------------------
(* The payload size specification: SetPayloadSize and GetPayloadSize on    *)
(* operands drawn from the corners of their ranges.                        *)

SizeBytes == {0, 1, 127, 128, 255}
SizeHalves == {0, 1, 255, 256, 32767, 32768, 65535}

SizeInputs ==
    {[op |-> "get", p_size |-> <<a, b, c, d>>, n |-> U32(0, 0),
      fromN |-> FALSE, done |-> FALSE, result |-> U32(0, 0)] :
         a \in SizeBytes, b \in SizeBytes, c \in SizeBytes, d \in SizeBytes}
    \cup
    {[op |-> "set", p_size |-> <<Uninit, Uninit, Uninit, Uninit>>,
      n |-> U32(hi, lo), fromN |-> TRUE, done |-> FALSE,
      result |-> U32(0, 0)] : hi \in SizeHalves, lo \in SizeHalves}

ApplySetPayloadSize ==
    /\ sz.op = "set"
    /\ sz' = [sz EXCEPT !.op = "get", !.p_size = SetPayloadSize(sz.n)]
    /\ UNCHANGED <<pc, err, ph, rph, fwd, avr_p, ectx, ep,
                   g_last_request_type, trace, wire, line, serial, spin, waiting, runs>>

ApplyGetPayloadSize ==
    /\ sz.op = "get"
    /\ ~sz.done
    /\ sz' = [sz EXCEPT !.done = TRUE, !.result = GetPayloadSize(sz.p_size)]
    /\ UNCHANGED <<pc, err, ph, rph, fwd, avr_p, ectx, ep,
                   g_last_request_type, trace, wire, line, serial, spin, waiting, runs>>

InitSize ==
    /\ pc = "size"
    /\ err = None
    /\ ph = [n \in {"request", "response", "local"} |-> NoHeader]
    /\ rph = NoReceive
    /\ fwd = NoCall
    /\ avr_p = Uninit
    /\ ectx = NoContext
    /\ ep = [selected |-> EA_INPUT, inBank |-> 0, inReady |-> TRUE,
             outBank |-> 0, waited |-> <<>>,
             ops |-> <<>>, level |-> Uninit]
    /\ g_last_request_type = 0
    /\ trace = <<>>
    /\ wire = <<>>
    /\ sz \in SizeInputs
    /\ line = NoLine
    /\ serial = <<>>
    /\ spin = 0
    /\ waiting = NoWaiting
    /\ runs = NoRuns

NextSize == ApplySetPayloadSize \/ ApplyGetPayloadSize

SpecSize == InitSize /\ [][NextSize]_vars

---------------------------------------------------------------------------
(* The codec specification: the engine sends the header of a packet into a *)
(* byte queue and ReceivePacketHeader reads the queue back, as the host    *)
(* side or as the Beeb side.                                               *)

CodecBytes == {0, 129, 255}

CodecHeaders ==
    {[t |-> t, p |-> b, p_size |-> <<Uninit, Uninit, Uninit, Uninit>>] :
         t \in 0..127, b \in CodecBytes}
    \cup
    {[t |-> t, p |-> Uninit, p_size |-> <<a, b, c, d>>] :
         t \in 128..255, a \in CodecBytes, b \in CodecBytes,
         c \in CodecBytes, d \in CodecBytes}

\* the engine has sent the whole header: hand the queue to the receiver
CodecDecode ==
    /\ pc \in {"Codec_encoded", "Fwd_recv"}
    /\ pc' = "RPH_type"
    /\ UNCHANGED <<err, ph, rph, fwd, avr_p, ectx, ep, g_last_request_type,
                   trace, wire, sz,
                   line, serial, spin, waiting, runs>>

InitCodec ==
    /\ pc = "Fwd_type"
    /\ err = None
    /\ \E h \in CodecHeaders :
         ph = [n \in {"request", "response", "local"} |->
                  IF n = "local" THEN h ELSE NoHeader]
    /\ \E m \in {0, 1} :
         rph = [ph |-> "response", recv_fn |-> "ReceiveByteFromWire",
                receiving_from_beeb |-> m, i |-> 0, ret |-> "Codec_decoded"]
    /\ fwd = [NoCall EXCEPT !.send_fn = "SendByteToWire",
                            !.ret = "Codec_encoded"]
    /\ avr_p = Uninit
    /\ ectx = NoContext
    /\ ep = [selected |-> EA_INPUT, inBank |-> 0, inReady |-> TRUE,
             outBank |-> 0, waited |-> <<>>,
             ops |-> <<>>, level |-> Uninit]
    /\ g_last_request_type = 0
    /\ trace = <<>>
    /\ wire = <<>>
    /\ sz = <<>>
    /\ line = NoLine
    /\ serial = <<>>
    /\ spin = 0
    /\ waiting = NoWaiting
    /\ runs = NoRuns

NextCodec ==
    \/ FwdSendType
    \/ FwdSendSize
    \/ FwdSendP
    \/ CodecDecode
    \/ ReceivePacketHeaderType
    \/ ReceivePacketHeaderSize
    \/ ReceivePacketHeaderP

SpecCodec == InitCodec /\ [][NextCodec]_vars

---------------------------------------------------------------------------
(* The dispatcher specification: MainLoop has received the header of an    *)
(* AVR meta-request - any inline sub-opcode, any length bytes from the      *)
(* corners of their range - and calls HandleRequestAVR.                    *)

SubopBytes == 0..255

AvrHeaders ==
    {[t |-> MakeType(0, REQUEST_AVR), p |-> b,
      p_size |-> <<Uninit, Uninit, Uninit, Uninit>>] : b \in SubopBytes}
    \cup
    {[t |-> MakeType(1, REQUEST_AVR), p |-> Uninit, p_size |-> <<a, b, c, d>>] :
         a \in SizeBytes, b \in SizeBytes, c \in SizeBytes, d \in SizeBytes}

\* the receive calls of ReceivePacketHeader that brought header h in
HeaderBytes(h) ==
    IF TypeV(h.t) = 1
    THEN <<[what |-> "type", val |-> h.t]>>
             \o [k \in 1..4 |-> [what |-> "p_size", val |-> h.p_size[k]]]
    ELSE <<[what |-> "type", val |-> h.t], [what |-> "p", val |-> h.p]>>

HeaderTrace(h) ==
    [k \in 1..Len(HeaderBytes(h)) |->
        [op |-> "ReceiveByteFromBeeb", by |-> "ReceivePacketHeader",
         site |-> "ML_request_header", what |-> HeaderBytes(h)[k].what,
         val |-> HeaderBytes(h)[k].val, err |-> None, sel |-> EA_INPUT]]

InitAvr ==
    /\ pc = "AVR"
    /\ err = None
    /\ \E h \in AvrHeaders :
         /\ ph = [n \in {"request", "response", "local"} |->
                     IF n = "request" THEN h ELSE NoHeader]
         /\ trace = HeaderTrace(h)
         /\ g_last_request_type = h.t
         /\ \E l \in serial_PacketHeader("-- BBC Request: ", h) :
              serial = <<l>>
    /\ \E i \in {0, 4} :
         /\ i = 4 <=> IsVariable(ph["request"].t)
         /\ rph = [ph |-> "request", recv_fn |-> "ReceiveByteFromBeeb",
                   receiving_from_beeb |-> 1, i |-> i,
                   ret |-> "ML_request_header"]
    /\ fwd = NoCall
    /\ avr_p = Uninit
    /\ ectx = NoContext
    /\ ep = [selected |-> EA_INPUT, inBank |-> 0, inReady |-> TRUE,
             outBank |-> 0, waited |-> <<>>,
             ops |-> <<>>, level |-> Uninit]
    /\ wire = <<>>
    /\ sz = <<>>
    /\ line = NoLine
    /\ spin = 0
    /\ waiting = NoWaiting
    /\ runs = NoRuns

\* HandleRequestAVR returned to MainLoop, which returns to main
AvrReturn ==
    /\ pc = "ML_avr"
    /\ pc' = "Avr_done"
    /\ UNCHANGED <<err, ph, rph, fwd, avr_p, ectx, ep, g_last_request_type,
                   trace, wire, sz,
                   line, serial, spin, waiting, runs>>

NextAvr ==
    \/ HandleRequestAVR
    \/ HandleRequestAVRRecv
    \/ HandleRequestAVRSwitch
    \/ FwdSendType
    \/ FwdSendSize
    \/ FwdRecv
    \/ FwdSend
    \/ FwdSendP
    \/ AvrReturn

SpecAvr == InitAvr /\ [][NextAvr]_vars

---------------------------------------------------------------------------
(* The handshake specification: one byte transfer over the user port, one *)
(* step per access to the lines.  The Beeb is the environment: every poll *)
(* of PINC finds CB2 at either level, and the Beeb presents its byte on   *)
(* port B from the moment it asserts ready (CB2 low) until it answers the *)
(* acknowledge pulse (CB2 high again).                                    *)

\* first number of low polls that is past AckAndCheck's bound (line 183)
Late == 11

LineOnly ==
    UNCHANGED <<err, ph, rph, fwd, avr_p, ectx, ep, g_last_request_type,
                trace, wire, sz, serial, spin, waiting, runs>>

Logged(l, what) == [l EXCEPT !.log = Append(l.log, what)]

\* lines 210 and 234: the data direction is set, then WaitForBeebReady is
\* called; MainLoop passes &waiting_message_printed (either value) with the
\* bytes of the request header and NULL everywhere else
LineCall ==
    /\ pc = "Line_idle"
    /\ \E fn \in {"ReceiveByteFromBeeb", "SendByteToBeeb"},
          c \in {"NULL", "flag"}, f \in {0, 1}, v \in PayloadBytes :
         /\ c = "flag" => fn = "ReceiveByteFromBeeb"
         /\ c = "NULL" => f = 0
         /\ line' = [NoLine EXCEPT
                        !.fn = fn, !.context = c, !.flag = f,
                        !.value = IF fn = "SendByteToBeeb" THEN v ELSE Uninit,
                        !.DDRB = IF fn = "SendByteToBeeb" THEN 255 ELSE 0,
                        !.PORTB = line.PORTB,
                        !.log = <<"DDRB">>]
    /\ pc' = "WFBR_poll"
    /\ LineOnly

\* line 149: the loop condition of WaitForBeebReady; CB2 low is ready
WaitForBeebReadyPoll ==
    /\ pc = "WFBR_poll"
    /\ \/ /\ pc' = "WFBR_task"
          /\ line' = line
       \/ /\ pc' = "Line_data"
          /\ \E b \in PayloadBytes :
               line' = Logged([line EXCEPT
                                  !.PINB = IF line.fn = "ReceiveByteFromBeeb"
                                              THEN b ELSE line.PINB,
                                  !.retry = FALSE, !.tasked = FALSE],
                              "ready")
    /\ LineOnly

\* lines 150-162: the body of WaitForBeebReady's loop
WaitForBeebReadyTask ==
    /\ pc = "WFBR_task"
    /\ LET c == (line.counter + 1) % (2 ^ CounterBits)
       IN  line' = [line EXCEPT
                       !.counter = c,
                       !.flag = IF c = 0 /\ line.context = "flag"
                                   THEN 1 ELSE line.flag,
                       !.retry = TRUE, !.tasked = TRUE]
    /\ pc' = "WFBR_poll"
    /\ LineOnly

\* the transport going on to the acknowledge pulse without line 214 or 238
\* (the mutant of LineData)
LineDataSkipped ==
    /\ pc = "Line_data"
    /\ line' = line
    /\ pc' = "ACK_low"
    /\ LineOnly

\* line 214, *value=PINB, or line 238, PORTB=value
LineData ==
    /\ pc = "Line_data"
    /\ line' = IF line.fn = "ReceiveByteFromBeeb"
                  THEN Logged([line EXCEPT !.value = line.PINB], "sample")
                  ELSE Logged([line EXCEPT !.PORTB = line.value], "drive")
    /\ pc' = "ACK_low"
    /\ LineOnly

\* lines 170-180: AckAndCheck drives CB1 low and clears its loop count
AckAndCheckLow ==
    /\ pc = "ACK_low"
    /\ line' = Logged([line EXCEPT !.CB1 = 0, !.loops = 0, !.result = None,
                                   !.lows = 0, !.retry = FALSE,
                                   !.tasked = FALSE],
                      "CB1_low")
    /\ pc' = "ACK_poll"
    /\ LineOnly

CountLow(l) == IF l.lows < Late THEN l.lows + 1 ELSE l.lows

\* AckAndCheck giving up the quick spin one poll early (the mutant of
\* AckAndCheckPoll)
AckAndCheckPollShort ==
    /\ pc = "ACK_poll"
    /\ \/ /\ pc' = "ACK_high"
          /\ line' = Logged([line EXCEPT !.PINB = Floating], "CB2_high")
       \/ /\ line.result # None => line.glitches < MaxGlitches
          /\ LET n == (line.loops + 1) % 256
             IN  /\ line' = [line EXCEPT
                                !.loops = n,
                                !.lows = IF line.result = None
                                            THEN CountLow(line) ELSE line.lows,
                                !.glitches = IF line.result # None
                                                THEN line.glitches + 1
                                                ELSE line.glitches,
                                !.retry = ~(n > 9), !.tasked = FALSE]
                 /\ pc' = IF n > 9 THEN "ACK_late_poll" ELSE "ACK_poll"
    /\ LineOnly

\* lines 181-184: the outer loop of AckAndCheck, its condition and the part
\* of its body before the inner wait
AckAndCheckPoll ==
    /\ pc = "ACK_poll"
    /\ \/ /\ pc' = "ACK_high"
          /\ line' = Logged([line EXCEPT !.PINB = Floating], "CB2_high")
       \/ /\ line.result # None => line.glitches < MaxGlitches
          /\ LET n == (line.loops + 1) % 256
             IN  /\ line' = [line EXCEPT
                                !.loops = n,
                                !.lows = IF line.result = None
                                            THEN CountLow(line) ELSE line.lows,
                                !.glitches = IF line.result # None
                                                THEN line.glitches + 1
                                                ELSE line.glitches,
                                !.retry = ~(n > 10), !.tasked = FALSE]
                 /\ pc' = IF n > 10 THEN "ACK_late_poll" ELSE "ACK_poll"
    /\ LineOnly

\* lines 187 and 191: the condition of the inner wait; when it finds CB2
\* high the result becomes NoBeebHandshake and the outer loop goes round
AckAndCheckLatePoll ==
    /\ pc = "ACK_late_poll"
    /\ \/ /\ pc' = "ACK_late_task"
          /\ line' = [line EXCEPT
                         !.lows = IF line.result = None
                                     THEN CountLow(line) ELSE line.lows]
       \/ /\ pc' = "ACK_poll"
          /\ line' = [line EXCEPT !.result = NoBeebHandshake,
                                  !.retry = TRUE]
    /\ LineOnly

\* the inner wait spinning without USB_USBTask (the mutant of
\* AckAndCheckLateTask)
AckAndCheckLateTaskIdle ==
    /\ pc = "ACK_late_task"
    /\ line' = [line EXCEPT !.retry = TRUE]
    /\ pc' = "ACK_late_poll"
    /\ LineOnly

\* line 188: the body of the inner wait
AckAndCheckLateTask ==
    /\ pc = "ACK_late_task"
    /\ line' = [line EXCEPT !.retry = TRUE, !.tasked = TRUE]
    /\ pc' = "ACK_late_poll"
    /\ LineOnly

\* lines 195-197: AckAndCheck drives CB1 high and returns its result
AckAndCheckHigh ==
    /\ pc = "ACK_high"
    /\ line' = Logged([line EXCEPT !.CB1 = 1], "CB1_high")
    /\ pc' = "Line_return"
    /\ LineOnly

\* lines 217-221 and 241-245: the transport returns AckAndCheck's result
LineReturn ==
    /\ pc = "Line_return"
    /\ pc' = "Line_idle"
    /\ line' = line
    /\ LineOnly

InitLine ==
    /\ pc = "Line_idle"
    /\ err = None
    /\ ph = [n \in {"request", "response", "local"} |-> NoHeader]
    /\ rph = NoReceive
    /\ fwd = NoCall
    /\ avr_p = Uninit
    /\ ectx = NoContext
    /\ ep = [selected |-> EA_INPUT, inBank |-> 0, inReady |-> TRUE,
             outBank |-> 0, waited |-> <<>>,
             ops |-> <<>>, level |-> Uninit]
    /\ g_last_request_type = 0
    /\ trace = <<>>
    /\ wire = <<>>
    /\ sz = <<>>
    /\ line = NoLine
    /\ serial = <<>>
    /\ spin = 0
    /\ waiting = NoWaiting
    /\ runs = NoRuns

NextLine ==
    \/ LineCall
    \/ WaitForBeebReadyPoll
    \/ WaitForBeebReadyTask
    \/ LineData
    \/ AckAndCheckLow
    \/ AckAndCheckPoll
    \/ AckAndCheckLatePoll
    \/ AckAndCheckLateTask
    \/ AckAndCheckHigh
    \/ LineReturn

\* the processor keeps executing: a step that can be taken is taken
SpecLine == InitLine /\ [][NextLine]_vars /\ WF_vars(NextLine)

---------------------------------------------------------------------------
(* The relay comparison: SendPacketHeaderAndForwardPayload of beeblink.c   *)
(* and the body of SendPacketHeaderAndForwardPayload.inl, each called for  *)
(* a request that is traced and for one that is not, one call after the    *)
(* other with the same header, the same source bytes and the same failing  *)
(* call.  The .inl takes its transports from the macros SEND and RECV of   *)
(* the file that includes it, which assign the Error to err; here both     *)
(* routines call the sink and the source of the comparison.                *)

\* largest payload size relayed in the comparison
MaxRelay == 53

\* serial_is_enabled() is not part of the sources: the logging may be
\* switched on or off
serial_is_enabled == {0, 1}

\* the for loops of lines 111, 126, 139 and 145 testing their condition for
\* i: the loop that relays byte i, "done" when all of them are left
InlQuiet(i, f) == IF U32Less(i, f.p_size) THEN "quiet" ELSE "done"
\* the last loop stopping one byte short
InlTailShort(i, f) == IF U32Less(i + 1, f.p_size) THEN "tail" ELSE "done"
InlTail(i, f) == IF U32Less(i, f.p_size) THEN "tail" ELSE "done"
InlMiddle(i, f) == IF U32Less(i, f.v_restart) THEN "middle" ELSE InlTail(i, f)
InlHead(i, f) == IF U32Less(i, f.v_end) THEN "head" ELSE InlMiddle(i, f)
InlLoop(i, f) ==
    CASE f.loop = "quiet" -> InlQuiet(i, f)
      [] f.loop = "head" -> InlHead(i, f)
      [] f.loop = "middle" -> InlMiddle(i, f)
      [] f.loop = "tail" -> InlTail(i, f)

\* the frame once the loop f is in has tested its condition for i: when the
\* first traced loop is left with bytes to go, line 135 prints the eliding
\* message
InlNext(f, i) ==
    LET l == InlLoop(i, f)
        eliding == f.loop = "head" /\ l # "head" /\ U32Less(i, f.p_size)
    IN  [f EXCEPT !.i = i, !.loop = l,
                  !.elided = @ + IF eliding THEN 1 ELSE 0]

\* lines 117-124
InlWindow(p_size) ==
    IF ~U32Greater(p_size, MAX_NUM_DUMP_BYTES)
    THEN [v_end |-> p_size, v_restart |-> p_size]
    ELSE [v_end |-> U32(0, MAX_NUM_DUMP_BYTES \div 2),
          v_restart |-> U32Sub(p_size, MAX_NUM_DUMP_BYTES \div 2)]

\* lines 80-85: the type byte
InlSendType ==
    /\ pc = "Inl_type"
    /\ \E o \in Send(fwd.send_fn, ph[fwd.response_ph].t) :
         /\ Transported(fwd.send_fn, "SendPacketHeaderAndForwardPayload",
                        fwd.ret, "type", o)
         /\ IF Aborts(o.err)
            THEN /\ err' = o.err
                 /\ pc' = fwd.ret
            ELSE /\ err' = err
                 /\ pc' = IF IsVariable(ph[fwd.response_ph].t)
                          THEN "Inl_p_size" ELSE "Inl_p"
    /\ UNCHANGED <<ph, rph, fwd, avr_p, g_last_request_type, sz,
                   line, serial, spin, waiting, runs>>

\* lines 86-126: one length byte; after the fourth, GetPayloadSize, verbose,
\* the window, x and the first test of the first loop
InlSendSize ==
    /\ pc = "Inl_p_size"
    /\ \E o \in Send(fwd.send_fn, SizeByte(ph[fwd.response_ph].p_size, fwd.i)),
          enabled \in serial_is_enabled :
         /\ Transported(fwd.send_fn, "SendPacketHeaderAndForwardPayload",
                        fwd.ret, "p_size", o)
         /\ IF Aborts(o.err)
            THEN /\ err' = o.err
                 /\ pc' = fwd.ret
                 /\ fwd' = fwd
            ELSE IF SendSizeLoop(fwd.i + 1)
            THEN /\ err' = err
                 /\ pc' = "Inl_p_size"
                 /\ fwd' = [fwd EXCEPT !.i = fwd.i + 1]
            ELSE LET p_size == GetPayloadSize(ph[fwd.response_ph].p_size)
                     verbose == IF enabled = 1
                                THEN IsVerboseRequestOf(fwd.request_ph)
                                ELSE 0
                     f == [fwd EXCEPT
                              !.p_size = p_size, !.verbose = verbose, !.x = 0,
                              !.v_end = IF verbose = 1
                                        THEN InlWindow(p_size).v_end ELSE @,
                              !.v_restart = IF verbose = 1
                                            THEN InlWindow(p_size).v_restart
                                            ELSE @,
                              !.loop = IF verbose = 1 THEN "head" ELSE "quiet"]
                 IN  /\ fwd' = InlNext(f, 0)
                     /\ IF fwd'.loop # "done"
                        THEN /\ err' = err
                             /\ pc' = "Inl_recv"
                        ELSE /\ err' = None
                             /\ pc' = fwd.ret
    /\ UNCHANGED <<ph, rph, avr_p, g_last_request_type, sz,
                   line, serial, spin, waiting, runs>>

\* RECV_BYTE of lines 113, 129, 141 and 148, after PRE_RECV_MESSAGE in the
\* two traced loops
InlRecv ==
    /\ pc = "Inl_recv"
    /\ \E o \in Recv(fwd.recv_fn, "payload", 0) :
         /\ Transported(fwd.recv_fn, "SendPacketHeaderAndForwardPayload",
                        fwd.ret, "payload", o)
         /\ fwd' = [fwd EXCEPT
                       !.x = Stored(@, o),
                       !.dumped = @ + IF fwd.loop \in {"head", "tail"}
                                      THEN 1 ELSE 0]
         /\ IF Aborts(o.err)
            THEN /\ err' = o.err
                 /\ pc' = fwd.ret
            ELSE /\ err' = err
                 /\ pc' = "Inl_send"
    /\ UNCHANGED <<ph, rph, avr_p, g_last_request_type, sz,
                   line, serial, spin, waiting, runs>>

\* SEND_BYTE of lines 114, 131, 142 and 150, then ++i and the loop tests
InlSend ==
    /\ pc = "Inl_send"
    /\ \E o \in Send(fwd.send_fn, fwd.x) :
         /\ Transported(fwd.send_fn, "SendPacketHeaderAndForwardPayload",
                        fwd.ret, "payload", o)
         /\ IF Aborts(o.err)
            THEN /\ err' = o.err
                 /\ pc' = fwd.ret
                 /\ fwd' = fwd
            ELSE /\ fwd' = InlNext(fwd, fwd.i + 1)
                 /\ IF fwd'.loop # "done"
                    THEN /\ err' = err
                         /\ pc' = "Inl_recv"
                    ELSE /\ err' = None
                         /\ pc' = fwd.ret
    /\ UNCHANGED <<ph, rph, avr_p, g_last_request_type, sz,
                   line, serial, spin, waiting, runs>>

\* lines 154-161: the inline payload byte of a fixed-size header
InlSendP ==
    /\ pc = "Inl_p"
    /\ \E o \in Send(fwd.send_fn, ph[fwd.response_ph].p) :
         /\ Transported(fwd.send_fn, "SendPacketHeaderAndForwardPayload",
                        fwd.ret, "p", o)
         /\ err' = o.err
         /\ pc' = fwd.ret
    /\ UNCHANGED <<ph, rph, fwd, avr_p, g_last_request_type, sz,
                   line, serial, spin, waiting, runs>>

\* the headers relayed: one with the flag clear, and the declared sizes on
\* both sides of the dump threshold
RelaySizes == {0, MAX_NUM_DUMP_BYTES \div 2, MAX_NUM_DUMP_BYTES,
               MAX_NUM_DUMP_BYTES + 1, MaxRelay}
RelayHeaders ==
    {[t |-> MakeType(0, 2), p |-> 7,
      p_size |-> <<Uninit, Uninit, Uninit, Uninit>>]}
    \cup {[t |-> MakeType(1, 2), p |-> Uninit, p_size |-> <<n, 0, 0, 0>>] :
             n \in RelaySizes}

\* the transport calls a relay of header h makes when none fails
RelayCalls(h) == IF IsVariable(h.t) THEN 5 + 2 * h.p_size[1] ELSE 2

\* the request types the relay is called for: one traced, one not
TracedRequest == MakeType(1, 2)
QuietRequest == MakeType(1, REQUEST_OSGBPB)

\* the calls compared, in the order they are made
RelayRuns ==
    <<[impl |-> "beeblink.c", t |-> TracedRequest],
      [impl |-> "beeblink.c", t |-> QuietRequest],
      [impl |-> ".inl", t |-> TracedRequest],
      [impl |-> ".inl", t |-> QuietRequest]>>

InitRelay ==
    /\ pc = "Relay_idle"
    /\ err = None
    /\ \E h \in RelayHeaders :
         /\ ph = [n \in {"request", "response", "local"} |->
                     IF n = "response" THEN h ELSE NoHeader]
         /\ \E k \in 0..RelayCalls(h) :
              runs = [todo |-> RelayRuns, done |-> <<>>, replay |-> <<>>,
                      failAt |-> k,
                      failErr |-> IF k = 0 THEN None
                                  ELSE USBDeviceDisconnected]
    /\ rph = NoReceive
    /\ fwd = NoCall
    /\ avr_p = Uninit
    /\ ectx = NoContext
    /\ ep = [selected |-> EA_INPUT, inBank |-> 0, inReady |-> TRUE,
             outBank |-> 0, waited |-> <<>>,
             ops |-> <<>>, level |-> Uninit]
    /\ g_last_request_type = 0
    /\ trace = <<>>
    /\ wire = <<>>
    /\ sz = <<>>
    /\ line = NoLine
    /\ serial = <<>>
    /\ spin = 0
    /\ waiting = NoWaiting

\* the next call: the request header takes the type of the run, the
\* history starts anew
RelayCall ==
    /\ pc = "Relay_idle"
    /\ runs.todo # <<>>
    /\ ph' = [ph EXCEPT !["request"].t = Head(runs.todo).t]
    /\ CallSendPacketHeaderAndForwardPayload(
           "request", "response", "SendByteToSink", "ReceiveByteFromSource",
           "Relay_return")
    /\ pc' = IF Head(runs.todo).impl = ".inl" THEN "Inl_type" ELSE "Fwd_type"
    /\ err' = None
    /\ trace' = <<>>
    /\ UNCHANGED <<rph, avr_p, ectx, ep, g_last_request_type, wire, sz,
                   line, serial, spin, waiting, runs>>

\* the call returned: its transport calls, its Error and what it traced are
\* kept for the comparison
RelayReturn ==
    /\ pc = "Relay_return"
    /\ runs' = [runs EXCEPT
                   !.todo = Tail(@),
                   !.done = Append(@, [impl |-> Head(runs.todo).impl,
                                       t |-> Head(runs.todo).t,
                                       calls |-> trace, err |-> err,
                                       verbose |-> fwd.verbose,
                                       dumped |-> fwd.dumped,
                                       elided |-> fwd.elided])]
    /\ pc' = "Relay_idle"
    /\ UNCHANGED <<err, ph, rph, fwd, avr_p, ectx, ep, g_last_request_type,
                   trace, wire, sz, line, serial, spin, waiting>>

NextRelay ==
    \/ RelayCall
    \/ FwdSendType
    \/ FwdSendSize
    \/ FwdRecv
    \/ FwdSend
    \/ FwdSendP
    \/ InlSendType
    \/ InlSendSize
    \/ InlRecv
    \/ InlSend
    \/ InlSendP
    \/ RelayReturn

SpecRelay == InitRelay /\ [][NextRelay]_vars

---------------------------------------------------------------------------
(* One iteration of MainLoop, run once for each value the memo of the      *)
(* last request type can hold when the iteration starts.  The runs start   *)
(* in the same state but for the memo, and in the later runs the Beeb and  *)
(* the host behave as they did in the first (Replayed); the history of     *)
(* each run is kept in runs.done.                                          *)

\* the values of g_last_request_type the runs start with: 0 (start-up, a
\* header that was not received, a presence probe), a request that is not
\* logged and one that is
MemoValues == <<0, MakeType(0, REQUEST_OSBGET)>>

InitMemo ==
    /\ pc = "main"
    /\ err = None
    /\ ph = [n \in {"request", "response", "local"} |-> NoHeader]
    /\ rph = NoReceive
    /\ fwd = NoCall
    /\ avr_p = Uninit
    /\ ectx = NoContext
    /\ ep = [selected |-> EA_INPUT, inBank |-> 0, inReady |-> TRUE,
             outBank |-> 0, waited |-> <<>>,
             ops |-> <<>>, level |-> Uninit]
    /\ g_last_request_type = Head(MemoValues)
    /\ trace = <<>>
    /\ wire = <<>>
    /\ sz = <<>>
    /\ line = NoLine
    /\ serial = <<>>
    /\ spin = 0
    /\ waiting = NoWaiting
    /\ runs = [NoRuns EXCEPT !.todo = MemoValues]

\* the iteration of a run: MainLoop is entered once, with nothing done yet
MemoBegin ==
    /\ trace = <<>>
    /\ MainLoopBegin

\* MainLoop returned: keep what the run did, and start the next run, if there
\* is one, from the state the first started in, with the next memo
MemoReturn ==
    /\ pc = "main"
    /\ trace # <<>>
    /\ runs.todo # <<>>
    /\ LET rest == Tail(runs.todo)
           done == Append(runs.done,
                          [memo |-> Head(runs.todo),
                           calls |-> trace,
                           err |-> err,
                           request |-> ph["request"],
                           printed |-> waiting.wait_for_bbc_msg,
                           memoEnd |-> g_last_request_type])
       IN  IF rest = <<>>
           THEN /\ pc' = "Memo_done"
                /\ runs' = [runs EXCEPT !.todo = rest, !.done = done]
                /\ UNCHANGED <<err, ph, rph, fwd, avr_p, ectx, ep,
                               g_last_request_type, trace, serial, waiting>>
           ELSE /\ pc' = "main"
                /\ runs' = [runs EXCEPT !.todo = rest, !.done = done,
                                        !.replay = done[1].calls]
                /\ err' = None
                /\ ph' = [n \in {"request", "response", "local"} |-> NoHeader]
                /\ rph' = NoReceive
                /\ fwd' = NoCall
                /\ avr_p' = Uninit
                /\ ectx' = NoContext
                /\ ep' = [selected |-> EA_INPUT, inBank |-> 0,
                          inReady |-> TRUE, outBank |-> 0, waited |-> <<>>,
                          ops |-> <<>>, level |-> Uninit]
                /\ g_last_request_type' = Head(rest)
                /\ trace' = <<>>
                /\ serial' = <<>>
                /\ waiting' = NoWaiting
    /\ UNCHANGED <<wire, sz, line, spin>>

NextMemo ==
    \/ MemoBegin
    \/ ReceivePacketHeaderType
    \/ ReceivePacketHeaderSize
    \/ ReceivePacketHeaderP
    \/ MainLoopRequestHeader
    \/ HandleRequestAVR
    \/ HandleRequestAVRRecv
    \/ HandleRequestAVRSwitch
    \/ MainLoopAfterAVR
    \/ FwdSendType
    \/ FwdSendSize
    \/ FwdRecv
    \/ FwdSend
    \/ FwdSendP
    \/ MainLoopRequestForwarded
    \/ MainLoopResponseHeader
    \/ MainLoopResponseForwarded
    \/ MemoReturn

SpecMemo == InitMemo /\ [][NextMemo]_vars

---------------------------------------------------------------------------
(* Reading the history.                                                    *)

Engine == "SendPacketHeaderAndForwardPayload"

IsSend(e) == e.op \in {"SendByteToBeeb", "SendByteToHost", "SendByteToWire"}
IsRecv(e) ==
    e.op \in {"ReceiveByteFromBeeb", "ReceiveByteFromHost", "ReceiveErrorByte",
              "ReceiveByteFromWire", "NULL"}
IsOk(e) == e.err = None
IsOkSend(e) == IsSend(e) /\ IsOk(e)
IsOkRecv(e) == IsRecv(e) /\ IsOk(e)

Vals(evs) == [k \in 1..Len(evs) |-> evs[k].val]

\* the transport calls the engine made for the call site that returns to site
EngineEvents(site) ==
    LET T(e) == e.by = Engine /\ e.site = site
    IN  SelectSeq(trace, T)

\* a call of the engine is in progress or has returned, and its frame is live
EngineCalled == fwd.ret # "main"
\* the engine has just returned to its caller, with err
EngineReturned == EngineCalled /\ pc = fwd.ret

\* the header the live call was given, and its transport calls
Sent == ph[fwd.response_ph]
Calls == EngineEvents(fwd.ret)

\* the payload size a header declares: its length bytes, least significant
\* first (the bounds keep it far below 2^31)
Declared(h) ==
    h.p_size[1] + 256 * h.p_size[2] + 65536 * h.p_size[3]
        + 16777216 * h.p_size[4]

\* what the sink is to see for header h and source bytes r
OnTheWire(h, r) ==
    IF TypeV(h.t) = 1 THEN <<h.t>> \o h.p_size \o r ELSE <<h.t, h.p>>

---------------------------------------------------------------------------
(* The forwarding engine.                                                  *)

\* C1: when the engine returns Error_None for a variable-sized header that
\* declares n payload bytes, it made exactly n receive calls and n+5 send
\* calls, none failed, and the bytes sent are the type byte, the four length
\* bytes least significant first, then the received bytes in their order.
C1_ForwardsExactly ==
    (EngineReturned /\ err = None /\ TypeV(Sent.t) = 1) =>
        LET sends == SelectSeq(Calls, IsSend)
            recvs == SelectSeq(Calls, IsRecv)
            n == Declared(Sent)
        IN  /\ Len(recvs) = n
            /\ Len(sends) = n + 5
            /\ \A k \in 1..Len(Calls) : IsOk(Calls[k])
            /\ Vals(sends) =
                   <<Sent.t, Sent.p_size[1], Sent.p_size[2], Sent.p_size[3],
                     Sent.p_size[4]>> \o Vals(recvs)

\* a request with two distinct payload bytes went to the host unharmed
C1_Witness ==
    /\ EngineReturned
    /\ err = None
    /\ fwd.send_fn = "SendByteToHost"
    /\ TypeV(Sent.t) = 1
    /\ Declared(Sent) = 2
    /\ Vals(SelectSeq(Calls, IsRecv)) = <<65, 200>>

\* C2: the first transport error ends the call of the engine: a failed call
\* is the last call the engine makes, the engine returns the Error of that
\* call, and the sink was sent exactly the bytes that precede the failure -
\* for a failed receive of payload byte k, the header and bytes 0..k-1.
C2_FirstErrorEnds ==
    /\ \A site \in {"ML_request_forwarded", "ML_response_forwarded", "ML_avr"} :
         LET evs == EngineEvents(site)
         IN  \A k \in 1..Len(evs) : ~IsOk(evs[k]) => k = Len(evs)
    /\ (EngineReturned /\ err = None) =>
           \A k \in 1..Len(Calls) : IsOk(Calls[k])
    /\ (EngineReturned /\ err # None) =>
           LET last == Calls[Len(Calls)]
               sent == Vals(SelectSeq(Calls, IsOkSend))
               got == Vals(SelectSeq(Calls, IsOkRecv))
               due == OnTheWire(Sent, got)
           IN  /\ Len(Calls) > 0
               /\ last.err = err
               /\ Len(sent) <= Len(due)
               /\ sent = SubSeq(due, 1, Len(sent))
               /\ IsRecv(last) => sent = due
               /\ IsSend(last) =>
                      /\ Len(sent) < Len(due)
                      /\ last.val = due[Len(sent) + 1]

\* the Beeb fails on the second payload byte of a request
C2_Witness ==
    /\ EngineReturned
    /\ err = NoBeebHandshake
    /\ fwd.recv_fn = "ReceiveByteFromBeeb"
    /\ IsRecv(Calls[Len(Calls)])
    /\ Len(SelectSeq(Calls, IsOkRecv)) = 1
    /\ Len(SelectSeq(Calls, IsOkSend)) = 6

\* C3: the engine holds at most one payload byte: in every prefix of its
\* transport calls the receives outnumber the sends that follow the five
\* header bytes by zero or one, and there is no receive before the fifth
\* send has succeeded.
C3_OneByteInFlight ==
    \A site \in {"ML_request_forwarded", "ML_response_forwarded", "ML_avr"} :
        LET evs == EngineEvents(site)
        IN  \A k \in 1..Len(evs) :
                LET pre == SubSeq(evs, 1, k)
                    r == Len(SelectSeq(pre, IsRecv))
                    s == Len(SelectSeq(pre, IsSend))
                IN  r > 0 =>
                        /\ Len(SelectSeq(pre, IsOkSend)) >= 5
                        /\ r - (s - 5) \in {0, 1}
                        /\ IsRecv(evs[k]) => r - (s - 5) = 1
                        /\ IsSend(evs[k]) => r - (s - 5) = 0

\* two payload bytes were relayed, one after the other
C3_Witness ==
    /\ EngineReturned
    /\ err = None
    /\ Len(SelectSeq(Calls, IsRecv)) = 2
    /\ Len(SelectSeq(Calls, IsSend)) = 7
    /\ IsRecv(Calls[6]) /\ IsSend(Calls[7])
    /\ IsRecv(Calls[8]) /\ IsSend(Calls[9])

\* C4: for a header whose variable-size flag is clear the engine makes no
\* receive call and at most two send calls, the type byte and then the
\* inline byte - both when it returns Error_None; no call ever goes through
\* a NULL recv_fn.
C4_FixedSizeNeverReceives ==
    /\ \A k \in 1..Len(trace) : trace[k].op # "NULL"
    /\ (EngineCalled /\ TypeV(Sent.t) = 0) =>
           /\ SelectSeq(Calls, IsRecv) = <<>>
           /\ Len(Calls) <= 2
           /\ \A k \in 1..Len(Calls) : Calls[k].val = <<Sent.t, Sent.p>>[k]
           /\ (EngineReturned /\ err = None) =>
                  Vals(Calls) = <<Sent.t, Sent.p>>

\* the ready response went out with recv_fn NULL
C4_Witness ==
    /\ EngineReturned
    /\ err = None
    /\ fwd.recv_fn = "NULL"
    /\ Vals(Calls) = <<MakeType(0, RESPONSE_YES), AVR_PROTOCOL_VERSION>>

---------------------------------------------------------------------------
(* The header codec.                                                       *)

\* C5: the header bytes the engine sends for a header h, read back by
\* ReceivePacketHeader - as the host side, or as the Beeb side when the code
\* is not the presence check - give a header with the code and flag of h and
\* with its inline byte (flag clear) or its four length bytes (flag set).
C5_HeaderRoundTrip ==
    (/\ pc = "Codec_decoded"
     /\ (rph.receiving_from_beeb = 0
            \/ TypeC(ph["local"].t) # REQUEST_AVR_PRESENCE)) =>
        /\ err = None
        /\ TypeC(ph["response"].t) = TypeC(ph["local"].t)
        /\ TypeV(ph["response"].t) = TypeV(ph["local"].t)
        /\ TypeV(ph["local"].t) = 0 => ph["response"].p = ph["local"].p
        /\ TypeV(ph["local"].t) = 1 =>
               ph["response"].p_size = ph["local"].p_size

\* a variable-sized header with four different length bytes came back on
\* the Beeb side
C5_Witness ==
    /\ pc = "Codec_decoded"
    /\ rph.receiving_from_beeb = 1
    /\ ph["local"].t = MakeType(1, 127)
    /\ ph["local"].p_size = <<0, 129, 255, 129>>
    /\ ph["response"].p_size = <<0, 129, 255, 129>>

\* bytes a header takes on the wire: 5 with the flag set, 2 with it clear
WireLength(t) == IF TypeV(t) = 1 THEN 5 ELSE 2

\* the transport calls ReceivePacketHeader made for the caller at site
HeaderEvents(site) ==
    LET T(e) == e.by = "ReceivePacketHeader" /\ e.site = site
    IN  SelectSeq(trace, T)

\* ReceivePacketHeader has just returned to its caller, with err
HeaderReturned == rph.ret # "main" /\ pc = rph.ret

IsHeaderByte(e) == e.what \in {"type", "p_size", "p"}

\* C6 as claimed: every header that ReceivePacketHeader receives without
\* error took exactly 2 (flag clear) or 5 (flag set) receive calls, and the
\* engine sends exactly that many header bytes.
C6_Original ==
    /\ (HeaderReturned /\ err = None) =>
           Len(HeaderEvents(rph.ret)) = WireLength(ph[rph.ph].t)
    /\ (EngineReturned /\ err = None) =>
           Len(SelectSeq(Calls, IsHeaderByte)) = WireLength(Sent.t)

\* C6: as C6_Original, except that a type byte with the presence-check code
\* received from the Beeb ends ReceivePacketHeader after that one byte,
\* whatever its flag.
C6_WireLength ==
    /\ (HeaderReturned /\ err = None) =>
           Len(HeaderEvents(rph.ret)) =
               IF /\ rph.receiving_from_beeb = 1
                  /\ TypeC(ph[rph.ph].t) = REQUEST_AVR_PRESENCE
               THEN 1
               ELSE WireLength(ph[rph.ph].t)
    /\ (EngineReturned /\ err = None) =>
           Len(SelectSeq(Calls, IsHeaderByte)) = WireLength(Sent.t)

\* the host sent a variable-sized header with the code of the presence
\* check, and all five bytes of it were read
C6_Witness ==
    /\ HeaderReturned
    /\ err = None
    /\ rph.receiving_from_beeb = 0
    /\ ph["response"].t = MakeType(1, REQUEST_AVR_PRESENCE)
    /\ Len(HeaderEvents(rph.ret)) = 5

\* C7 as claimed: GetPayloadSize gives b0 + 256*b1 + 65536*b2 + 16777216*b3
\* for all length bytes, and GetPayloadSize after SetPayloadSize(n) gives n.
C7_PayloadSizeExact ==
    sz.done =>
        /\ sz.result = U32(sz.p_size[3] + 256 * sz.p_size[4],
                           sz.p_size[1] + 256 * sz.p_size[2])
        /\ sz.fromN => sz.result = sz.n

---------------------------------------------------------------------------
(* MainLoop.                                                               *)

\* the four phases of a forwarded iteration, as numbers in program order
Phase(e) ==
    CASE e.site = "ML_request_header" -> 1
      [] e.site = "ML_request_forwarded" -> 2
      [] e.site = "ML_avr" -> 2
      [] e.site = "ML_response_header" -> 3
      [] e.site = "ML_response_forwarded" -> 4

IsBeebRecv(e) == e.op = "ReceiveByteFromBeeb"
IsBeebPayload(e) == e.op = "ReceiveByteFromBeeb" /\ e.what = "payload"
IsBeebType(e) == e.op = "ReceiveByteFromBeeb" /\ e.what = "type"
IsHostWrite(e) == e.op = "SendByteToHost" /\ e.err = None
IsResponseSide(e) ==
    e.op \in {"ReceiveByteFromHost", "SendByteToBeeb"} /\ e.site # "ML_avr"

\* C8: in an iteration the transport calls come in the order request header,
\* request relay, response header, response relay; before any read from the
\* host and any send to the Beeb for a forwarded request, the whole request -
\* header and every declared payload byte - was written to the host; the
\* type byte of a request is read at most once per iteration.
C8_StrictAlternation ==
    /\ \A j \in 1..Len(trace) : \A k \in j..Len(trace) :
           Phase(trace[j]) <= Phase(trace[k])
    /\ \A k \in 1..Len(trace) :
           IsResponseSide(trace[k]) =>
               LET pre == SubSeq(trace, 1, k - 1)
                   payload == Vals(SelectSeq(pre, IsBeebPayload))
               IN  /\ Vals(SelectSeq(pre, IsHostWrite)) =
                          OnTheWire(ph["request"], payload)
                   /\ TypeV(ph["request"].t) = 1 =>
                          Len(payload) = Declared(ph["request"])
    /\ Len(SelectSeq(trace, IsBeebType)) <= 1
    /\ Len(HeaderEvents("ML_request_header")) <= 5

\* an iteration ran through all four phases, with payload in both directions
C8_Witness ==
    /\ pc = "main"
    /\ err = None
    /\ Len(HeaderEvents("ML_request_header")) = 5
    /\ Len(EngineEvents("ML_request_forwarded")) = 9
    /\ Len(HeaderEvents("ML_response_header")) = 5
    /\ Len(EngineEvents("ML_response_forwarded")) = 9

\* the request went to the host without error
RequestRelayed ==
    \/ pc = "ML_request_forwarded" /\ err = None
    \/ \E k \in 1..Len(trace) : Phase(trace[k]) >= 3
    \/ pc = "RPH_type" /\ rph.ret = "ML_response_header"

\* C9: what MainLoop has written to the host is at every moment the
\* beginning of what it has read from the Beeb in this iteration, and once
\* the request is relayed without error the two byte sequences are the same:
\* the type byte, the inline byte or the four length bytes, the payload.
C9_RequestVerbatim ==
    LET read == Vals(SelectSeq(trace, IsBeebRecv))
        written == Vals(SelectSeq(trace, IsHostWrite))
    IN  /\ Len(written) <= Len(read)
        /\ written = SubSeq(read, 1, Len(written))
        /\ RequestRelayed =>
               /\ written = read
               /\ written = OnTheWire(ph["request"],
                                      Vals(SelectSeq(trace, IsBeebPayload)))
               /\ ~IsMetaRequest(TypeC(ph["request"].t))

\* a request with a two-byte payload arrived at the host
C9_Witness ==
    /\ pc = "ML_request_forwarded"
    /\ err = None
    /\ Vals(SelectSeq(trace, IsHostWrite)) = <<130, 2, 0, 0, 0, 65, 200>>
    /\ Vals(SelectSeq(trace, IsBeebRecv)) = <<130, 2, 0, 0, 0, 65, 200>>

IsStall(e) == e.op \in {"StallDeviceToHost", "StallHostToDevice"}
IsFailedCall(e) == (IsSend(e) \/ IsRecv(e)) /\ e.err # None
Ops(evs) == [k \in 1..Len(evs) |-> evs[k].op]

\* C10: when an iteration is over, the stall actions it ran follow from the
\* phase of its first failed transport call: none if no call failed or if
\* the failure was the reset (a late handshake on the request's type byte);
\* StallDeviceToHost alone, and no call of the response phases, for another
\* failure in the request header or in the request relay; StallHostToDevice
\* alone for a failure in the response header or in the response relay.
C10_StallByPhase ==
    pc = "main" =>
        LET failed == SelectSeq(trace, IsFailedCall)
            stalls == Ops(SelectSeq(trace, IsStall))
            first == failed[1]
        IN  IF failed = <<>> THEN stalls = <<>>
            ELSE CASE Phase(first) = 1 /\ first.what = "type" ->
                          /\ err = Reset
                          /\ stalls = <<>>
                   [] Phase(first) = 1 /\ first.what # "type" ->
                          /\ stalls = <<"StallDeviceToHost">>
                          /\ \A k \in 1..Len(trace) : Phase(trace[k]) < 3
                   [] first.site = "ML_request_forwarded" ->
                          /\ stalls = <<"StallDeviceToHost">>
                          /\ \A k \in 1..Len(trace) : Phase(trace[k]) < 3
                   [] first.site = "ML_avr" -> stalls = <<>>
                   [] Phase(first) >= 3 -> stalls = <<"StallHostToDevice">>

\* the host link failed in the middle of the response payload
C10_Witness ==
    /\ pc = "main"
    /\ err = USBDeviceDisconnected
    /\ Len(EngineEvents("ML_response_forwarded")) > 5
    /\ Ops(SelectSeq(trace, IsStall)) = <<"StallHostToDevice">>

---------------------------------------------------------------------------
(* Resets, host faults and the meta-requests.                              *)

IsBeebSend(e) == e.op = "SendByteToBeeb"
IsHostSend(e) == e.op = "SendByteToHost"
IsHostRecv(e) == e.op = "ReceiveByteFromHost"
Stalls == Ops(SelectSeq(trace, IsStall))

\* C11 as claimed: a late handshake on any byte of the request header - the
\* type byte, the inline byte or a length byte - ends the iteration as a
\* reset: it is the last transport call, nothing was sent to the host or to
\* the Beeb, and no stall action ran.
C11_HeaderHandshakeIsReset ==
    pc = "main" =>
        \A k \in 1..Len(trace) :
            (trace[k].site = "ML_request_header"
                 /\ trace[k].err = NoBeebHandshake) =>
                /\ k = Len(trace)
                /\ SelectSeq(trace, IsSend) = <<>>
                /\ Stalls = <<>>

\* the iteration read the type byte of a request from the Beeb without error
RequestTypeRead ==
    /\ trace # <<>>
    /\ IsBeebType(trace[1])
    /\ IsOk(trace[1])

\* a payload byte the host delivered
IsOkHostPayload(e) == IsHostRecv(e) /\ IsOk(e) /\ e.what = "payload"

\* a host fault: ReceiveByteFromHost returned an Error
IsHostFault(e) == IsHostRecv(e) /\ e.err # None

\* C12 as claimed: after a failed ReceiveByteFromHost in the response phases
\* the iteration has sent no byte of the response to the Beeb, header or
\* payload, and ran StallHostToDevice exactly once.
C12_Original ==
    pc = "main" =>
        \A k \in 1..Len(trace) :
            IsHostFault(trace[k]) =>
                /\ SelectSeq(trace, IsBeebSend) = <<>>
                /\ Stalls = <<"StallHostToDevice">>

\* C12: a failed ReceiveByteFromHost in the response phases is the last
\* transport call of the iteration; the Beeb was sent nothing if the header
\* was being received, and the header and exactly the payload bytes read
\* before the fault if the payload was being relayed - every one of these
\* sends succeeded; the iteration runs StallHostToDevice once and no other
\* stall action.
C12_HostFaultInResponse ==
    \A k \in 1..Len(trace) :
        IsHostFault(trace[k]) =>
            LET pre == SubSeq(trace, 1, k - 1)
                sends == SelectSeq(trace, IsBeebSend)
                got == Vals(SelectSeq(pre, IsOkHostPayload))
            IN  /\ \A j \in (k + 1)..Len(trace) : IsStall(trace[j])
                /\ \A j \in 1..Len(sends) : IsOk(sends[j])
                /\ trace[k].site = "ML_response_header" => sends = <<>>
                /\ trace[k].site = "ML_response_forwarded" =>
                       /\ TypeV(ph["response"].t) = 1
                       /\ Vals(sends) = OnTheWire(ph["response"], got)
                /\ pc = "main" => Stalls = <<"StallHostToDevice">>

\* the host link failed on the second payload byte of a response: the Beeb
\* has the header and the first payload byte
C12_Witness ==
    /\ pc = "main"
    /\ Len(trace) > 1
    /\ IsHostFault(trace[Len(trace) - 1])
    /\ trace[Len(trace) - 1].site = "ML_response_forwarded"
    /\ Len(SelectSeq(trace, IsBeebSend)) = 6
    /\ Stalls = <<"StallHostToDevice">>

\* C13 as claimed: in an iteration whose request type byte carries the code
\* of the presence check or of the AVR meta-request, nothing is written to
\* the host, nothing is read from the host and no stall action runs.
C13_MetaNeverReachesHost ==
    (/\ trace # <<>>
     /\ IsBeebType(trace[1])
     /\ IsMetaRequest(TypeC(trace[1].val))) =>
        /\ SelectSeq(trace, IsHostSend) = <<>>
        /\ SelectSeq(trace, IsHostRecv) = <<>>
        /\ Stalls = <<>>

\* C14: in an iteration whose type byte, read without error, carries the
\* code of the presence check - flag clear or set - there is no call of
\* SendByteToBeeb or SendByteToHost and no stall, the Error of the iteration
\* is Error_None, and MainLoop returns straight from the header.
C14_PresenceSendsNothing ==
    (RequestTypeRead /\ TypeC(trace[1].val) = REQUEST_AVR_PRESENCE) =>
        /\ SelectSeq(trace, IsSend) = <<>>
        /\ Stalls = <<>>
        /\ err = None
        /\ pc \in {"ML_request_header", "main"}

\* the presence check with the flag set ended its iteration
C14_Witness ==
    /\ pc = "main"
    /\ RequestTypeRead
    /\ trace[1].val = MakeType(1, REQUEST_AVR_PRESENCE)
    /\ err = None

\* C15 as claimed: at the end of an iteration whose type byte carries the
\* code of the presence check, the bytes read from the Beeb are the whole
\* header as it lies on the wire: 2 with the flag clear, 5 with it set.
C15_Original ==
    (/\ pc = "main"
     /\ RequestTypeRead
     /\ TypeC(trace[1].val) = REQUEST_AVR_PRESENCE) =>
        Len(SelectSeq(trace, IsBeebRecv)) = WireLength(trace[1].val)

\* C15: an iteration whose type byte carries the code of the presence check
\* reads that one byte from the Beeb and makes no other transport call,
\* whatever the flag; MainLoop returns, and the byte read after it is read
\* as the type byte of the next request.
C15_PresenceConsumesTypeByte ==
    (RequestTypeRead /\ TypeC(trace[1].val) = REQUEST_AVR_PRESENCE) =>
        /\ Len(trace) = 1
        /\ ph["request"].t = trace[1].val
        /\ ph["request"].p = Uninit
        /\ ph["request"].p_size = <<Uninit, Uninit, Uninit, Uninit>>
        /\ pc \in {"ML_request_header", "main"}

\* the presence check with the flag clear ended its iteration after one byte
C15_Witness ==
    /\ pc = "main"
    /\ RequestTypeRead
    /\ trace[1].val = MakeType(0, REQUEST_AVR_PRESENCE)
    /\ Len(SelectSeq(trace, IsBeebRecv)) = 1

---------------------------------------------------------------------------
(* HandleRequestAVR and the error packet.                                  *)

IsPrefix(a, b) == Len(a) <= Len(b) /\ a = SubSeq(b, 1, Len(a))

IsSubop(e) == e.what = "subop"
IsTypeSend(e) == IsSend(e) /\ e.what = "type"
IsErrorByte(e) == e.op = "ReceiveErrorByte"

\* the iteration read, without error, the whole header of an AVR meta-request
AvrCalled ==
    /\ RequestTypeRead
    /\ TypeC(trace[1].val) = REQUEST_AVR
    /\ LET h == HeaderEvents("ML_request_header")
       IN  /\ Len(h) = WireLength(trace[1].val)
           /\ \A k \in 1..Len(h) : IsOk(h[k])

\* HandleRequestAVR has returned
AvrDone == pc \in {"ML_avr", "main", "Avr_done"}

\* the sub-opcode HandleRequestAVR switches on: the inline byte, or the byte
\* of the 1-byte payload once it is read without error; Uninit before that
Subop ==
    LET subops == SelectSeq(trace, IsSubop)
    IN  IF TypeV(trace[1].val) = 0 THEN trace[2].val
        ELSE IF subops # <<>> /\ IsOk(subops[1]) THEN subops[1].val
        ELSE Uninit

\* the ready response and the error packet as they go to the Beeb
ReadyResponse == <<MakeType(0, RESPONSE_YES), AVR_PROTOCOL_VERSION>>
ErrorPacket(code, text) ==
    <<MakeType(1, RESPONSE_ERROR), Len(text) + 3, 0, 0, 0>>
        \o <<0, code>> \o text \o <<0>>

BeebSends == SelectSeq(trace, IsBeebSend)

\* C16: for an AVR meta-request whose sub-opcode - inline, or the byte of a
\* 1-byte payload - is the ready query, what is sent to the Beeb is at every
\* moment the beginning of the two bytes <type: flag clear, RESPONSE_YES>,
\* <AVR_PROTOCOL_VERSION>; it is both bytes when HandleRequestAVR returns
\* Error_None, and it falls short only after a send that failed.
C16_ReadyResponse ==
    (AvrCalled /\ Subop = REQUEST_AVR_READY) =>
        /\ IsPrefix(Vals(BeebSends), ReadyResponse)
        /\ \A k \in 1..Len(BeebSends) :
               IsTypeSend(BeebSends[k]) =>
                   BeebSends[k].val # MakeType(0, RESPONSE_NO)
        /\ (AvrDone /\ err = None) => Vals(BeebSends) = ReadyResponse
        /\ (AvrDone /\ err # None) =>
               /\ BeebSends # <<>>
               /\ ~IsOk(BeebSends[Len(BeebSends)])

\* the ready query came as a 1-byte payload and was answered
C16_Witness ==
    /\ AvrCalled
    /\ TypeV(trace[1].val) = 1
    /\ Subop = REQUEST_AVR_READY
    /\ pc = "ML_avr"
    /\ err = None
    /\ Vals(BeebSends) = ReadyResponse

\* C17: for an AVR meta-request with the flag set whose length bytes are not
\* 1,0,0,0, no sub-opcode is read and nothing goes to the host; what is sent
\* to the Beeb is at every moment the beginning of the error packet <type:
\* flag set, RESPONSE_ERROR>, length of the message + 3 in four bytes, 0, 255,
\* "Bad REQUEST_AVR payload size", 0 - and the whole of it when
\* HandleRequestAVR returns Error_None.
C17_BadPayloadSize ==
    (/\ AvrCalled
     /\ TypeV(trace[1].val) = 1
     /\ ph["request"].p_size # <<1, 0, 0, 0>>) =>
        /\ SelectSeq(trace, IsSubop) = <<>>
        /\ avr_p = Uninit
        /\ SelectSeq(trace, IsHostSend) = <<>>
        /\ SelectSeq(trace, IsHostRecv) = <<>>
        /\ IsPrefix(Vals(BeebSends), ErrorPacket(255, BadPayloadSizeText))
        /\ (AvrDone /\ err = None) =>
               Vals(BeebSends) = ErrorPacket(255, BadPayloadSizeText)

\* a declared size of 32769 was answered with the whole error packet
C17_Witness ==
    /\ AvrCalled
    /\ ph["request"].p_size = <<1, 128, 0, 0>>
    /\ pc = "ML_avr"
    /\ err = None
    /\ Len(BeebSends) = 5 + 31

\* C18: once HandleRequestAVR has its sub-opcode, what is sent to the Beeb is
\* the beginning of one packet - the error packet 255 "As requested" for the
\* error injection, the ready response for the ready query, the error packet
\* 255 "Bad REQUEST_AVR payload" for every other value - and the whole packet
\* when it returns Error_None; an AVR meta-request sends one type byte to the
\* Beeb, none if the receive of the sub-opcode failed.
C18_SubopDispatch ==
    /\ (AvrCalled /\ Subop # Uninit) =>
           LET packet ==
                   CASE Subop = REQUEST_AVR_ERROR ->
                            ErrorPacket(255, AsRequestedText)
                     [] Subop = REQUEST_AVR_READY -> ReadyResponse
                     [] OTHER -> ErrorPacket(255, BadPayloadText)
           IN  /\ IsPrefix(Vals(BeebSends), packet)
               /\ (AvrDone /\ err = None) => Vals(BeebSends) = packet
    /\ (AvrCalled /\ AvrDone) =>
           LET subops == SelectSeq(trace, IsSubop)
           IN  Len(SelectSeq(BeebSends, IsTypeSend)) =
                   IF subops # <<>> /\ ~IsOk(subops[1]) THEN 0 ELSE 1

\* the sub-opcode 200 was answered with the error packet of the default case
C18_Witness ==
    /\ AvrCalled
    /\ Subop = 200
    /\ pc = "ML_avr"
    /\ err = None
    /\ Vals(BeebSends) = ErrorPacket(255, BadPayloadText)

\* C19: the k-th call of ReceiveErrorByte returns Error_None and yields 0 for
\* k = 1, the code for k = 2, the message bytes in order for k = 3..L+2 and
\* the terminator 0 for k = L+3; the cursor is the number of calls so far;
\* there are never more than L+3 calls, so no byte past the terminator is
\* read, and exactly L+3 once SendErrorToBeeb returns Error_None.
C19_ErrorByteSource ==
    LET calls == SelectSeq(trace, IsErrorByte)
        L == Len(ectx.text_ps)
    IN  /\ ectx.index = Len(calls)
        /\ Len(calls) <= L + 3
        /\ \A k \in 1..Len(calls) :
               /\ calls[k].err = None
               /\ calls[k].val # PastEnd
               /\ calls[k].val =
                      CASE k = 1 -> 0
                        [] k = 2 -> ectx.code
                        [] k = L + 3 -> 0
                        [] OTHER -> ectx.text_ps[k - 2]
        /\ (/\ EngineReturned
            /\ fwd.recv_fn = "ReceiveErrorByte"
            /\ err = None) => Len(calls) = L + 3

\* the "As requested" packet went out: 15 bytes were drawn from the source
C19_Witness ==
    /\ EngineReturned
    /\ fwd.recv_fn = "ReceiveErrorByte"
    /\ err = None
    /\ ectx.text_ps = AsRequestedText
    /\ ectx.code = 255
    /\ ectx.index = 15

---------------------------------------------------------------------------
(* The bulk transport.                                                     *)

IsHostCall(e) == IsHostSend(e) \/ IsHostRecv(e)

\* the transport call made last was ReceiveByteFromHost or SendByteToHost
HostCallReturned == trace # <<>> /\ IsHostCall(trace[Len(trace)])

\* a failed call moved no byte: nothing was stored and the OUT bank is still
\* empty, or nothing was written to the IN bank handed to the host
NoByteMoved(e) ==
    IF IsHostRecv(e) THEN e.val = Uninit /\ ep.outBank = 0
    ELSE ep.inBank = 0 /\ ~ep.inReady

---------------------------------------------------------------------------
(* The handshake lines.                                                    *)

AckAndCheckReturned == pc = "Line_return"

InAckAndCheck == pc \in {"ACK_poll", "ACK_late_poll", "ACK_late_task"}

IsSuffix(s, t) ==
    /\ Len(s) <= Len(t)
    /\ \A k \in 1..Len(s) : s[k] = t[Len(t) - Len(s) + k]

\* C21: AckAndCheck holds CB1 low while it waits for CB2; when it has
\* returned, the last thing it saw was CB2 high, between driving CB1 low
\* and driving it high again, and CB1 is high; it returns Error_None
\* exactly when at most 10 polls found CB2 low before the first poll that
\* found it high (CB2 was seen high in one of the first 11 polls), and
\* Error_NoBeebHandshake exactly when 11 polls or more found it low first.
C21_AckAndCheck ==
    /\ InAckAndCheck => line.CB1 = 0
    /\ AckAndCheckReturned =>
           /\ line.CB1 = 1
           /\ IsSuffix(<<"CB1_low", "CB2_high", "CB1_high">>, line.log)
           /\ line.result \in {None, NoBeebHandshake}
           /\ line.result = None <=> line.lows < Late
           /\ line.result = NoBeebHandshake <=> line.lows >= Late

\* AckAndCheck returned NoBeebHandshake after the Beeb raised CB2 late and
\* dropped it once more during the wait
C21_Witness ==
    /\ AckAndCheckReturned
    /\ line.result = NoBeebHandshake
    /\ line.lows = Late
    /\ line.glitches = 1
    /\ line.CB1 = 1

Count(what, log) == Cardinality({k \in 1..Len(log) : log[k] = what})

AfterData ==
    pc \in {"ACK_low", "ACK_poll", "ACK_late_poll", "ACK_late_task",
            "ACK_high", "Line_return"}

InTransfer == pc \notin {"Line_idle"} /\ line.fn # "none"

\* C22: in one byte transfer the data direction register is set for the
\* direction of the transfer before the wait for ready and stays so; a
\* receive samples port B after the Beeb was seen ready and before CB1 goes
\* low, so what it stores is the byte the Beeb presented; a send drives the
\* byte on port B after the Beeb was seen ready and before CB1 goes low and
\* port B still holds it when AckAndCheck has returned; CB1 goes low once
\* and high once per byte.
C22_TransferOrder ==
    /\ InTransfer =>
           /\ line.log[1] = "DDRB"
           /\ line.DDRB = IF line.fn = "SendByteToBeeb" THEN 255 ELSE 0
    /\ AfterData /\ line.fn = "SendByteToBeeb" => line.PORTB = line.value
    /\ AfterData /\ line.fn = "ReceiveByteFromBeeb" =>
           line.value \in PayloadBytes
    /\ AckAndCheckReturned =>
           /\ line.log = <<"DDRB", "ready",
                           IF line.fn = "SendByteToBeeb"
                              THEN "drive" ELSE "sample",
                           "CB1_low", "CB2_high", "CB1_high">>
           /\ Count("CB1_low", line.log) = 1
           /\ Count("CB1_high", line.log) = 1

\* a byte was received from a Beeb that answered the acknowledge pulse late
C22_Witness ==
    /\ AckAndCheckReturned
    /\ line.fn = "ReceiveByteFromBeeb"
    /\ line.value = 200
    /\ line.counter > 0
    /\ line.result = NoBeebHandshake

PollsAgain(loops) == pc \in loops /\ line.retry

InSpinWait ==
    pc \in {"WFBR_poll", "WFBR_task", "ACK_poll", "ACK_late_poll",
            "ACK_late_task"}

\* C26 as claimed: in both spin-waits every iteration of the loop calls
\* USB_USBTask: whenever one of the loops that wait for CB2 comes back to
\* its condition, the iteration it has just completed called the task.
C26_Original ==
    PollsAgain({"WFBR_poll", "ACK_poll", "ACK_late_poll"}) => line.tasked

\* C26: every iteration of WaitForBeebReady's loop and of the inner wait of
\* AckAndCheck calls USB_USBTask; the outer loop of AckAndCheck does not,
\* and goes round at most 10 times before more than 10 polls have found CB2
\* low and the inner wait is entered; so when the firmware stays in a
\* spin-wait for ever, USB_USBTask is called again and again.
C26_UsbTaskLive ==
    /\ []((PollsAgain({"WFBR_poll", "ACK_late_poll"}) => line.tasked)
           /\ ((pc = "ACK_poll" /\ line.result = None) => line.loops <= 10))
    /\ (<>[]InSpinWait => []<>line.tasked)

\* the inner wait of AckAndCheck has gone round and called the task, after
\* ten rounds of the outer loop that did not
C26_Witness ==
    /\ PollsAgain({"ACK_late_poll"})
    /\ line.tasked
    /\ line.result = None
    /\ line.loops = Late

---------------------------------------------------------------------------
(* Late handshakes and failures in the session.                            *)

\* a payload byte the engine moved from or to the Beeb with a late handshake
IsLatePayload(e) ==
    /\ e.by = Engine
    /\ e.what = "payload"
    /\ e.site \in {"ML_request_forwarded", "ML_response_forwarded"}
    /\ IsBeebRecv(e) \/ IsBeebSend(e)
    /\ e.err = NoBeebHandshake

\* the payload bytes whose send returned Error_None in the engine's call for
\* site
Delivered(site) ==
    LET T(e) == e.by = Engine /\ e.site = site /\ e.what = "payload"
                    /\ IsOkSend(e)
    IN  Len(SelectSeq(trace, T))

RelayedHeader(site) ==
    IF site = "ML_request_forwarded" THEN ph["request"] ELSE ph["response"]

\* C23 as claimed: a late handshake on a payload byte that is relayed from
\* or to the Beeb does not stop the relay - every declared payload byte is
\* delivered - and no stall action runs in that iteration.
C23_Original ==
    pc = "main" =>
        \A k \in 1..Len(trace) :
            IsLatePayload(trace[k]) =>
                /\ Stalls = <<>>
                /\ Delivered(trace[k].site)
                       = Declared(RelayedHeader(trace[k].site))

\* C23: a late handshake does not abandon the byte - the byte was taken from
\* or given to the Beeb - but the NoBeebHandshake it reports ends the
\* transfer, and not only in the header: on a payload byte of a relay it is
\* the last transport call of the iteration, the remaining payload bytes are
\* not moved, the engine returns NoBeebHandshake and MainLoop stalls the
\* endpoint of the phase, device->host in the request relay and
\* host->device in the response relay.
C23_LateHandshakeEndsRelay ==
    pc = "main" =>
        \A k \in 1..Len(trace) :
            IsLatePayload(trace[k]) =>
                /\ trace[k].val \in 0..255
                /\ \A j \in (k + 1)..Len(trace) : IsStall(trace[j])
                /\ err = NoBeebHandshake
                /\ Delivered(trace[k].site)
                       < Declared(RelayedHeader(trace[k].site))
                /\ Stalls = IF trace[k].site = "ML_request_forwarded"
                               THEN <<"StallDeviceToHost">>
                               ELSE <<"StallHostToDevice">>

\* the Beeb took the first of two response payload bytes late: the second
\* was never read from the host and the host->device endpoint is stalled
C23_Witness ==
    /\ pc = "main"
    /\ Len(trace) > 1
    /\ IsLatePayload(trace[Len(trace) - 1])
    /\ IsBeebSend(trace[Len(trace) - 1])
    /\ Declared(ph["response"]) = 2
    /\ Delivered("ML_response_forwarded") = 0
    /\ Stalls = <<"StallHostToDevice">>

\* a transport call of this iteration has returned an error
HasFailed == \E k \in 1..Len(trace) : IsFailedCall(trace[k])

\* a step that calls no transport: it leaves the history alone, or adds one
\* stall action to a history without one, or is the start of an iteration
NoFurtherCall ==
    \/ trace' = trace
    \/ /\ Stalls = <<>>
       /\ Len(trace') = Len(trace) + 1
       /\ SubSeq(trace', 1, Len(trace)) = trace
       /\ IsStall(trace'[Len(trace')])
    \/ pc = "main" /\ trace' = <<>>

\* the step has selected EA_INPUT and called ReceivePacketHeader for a fresh
\* request header from the Beeb
BeginsFresh ==
    /\ pc' = "RPH_type"
    /\ ep'.selected = EA_INPUT
    /\ trace' = <<>>
    /\ err' = None
    /\ rph' = [ph |-> "request", recv_fn |-> "ReceiveByteFromBeeb",
               receiving_from_beeb |-> 1, i |-> 0,
               ret |-> "ML_request_header"]
    /\ ph'["request"] = NoHeader

\* C24: once a transport call of an iteration has returned an error, every
\* further step of that iteration calls no transport - it adds nothing to
\* the history but at most one stall action - and leads to the return of
\* MainLoop; and the step after MainLoop has returned, whatever the
\* iteration was, selects EA_INPUT and awaits the type byte of a fresh
\* request header from the Beeb.
C24_FailureReturnsToIdle ==
    [][/\ HasFailed => NoFurtherCall /\ (pc = "main" \/ pc' = "main")
       /\ pc = "main" => BeginsFresh]_vars

\* MainLoop has returned from an iteration whose response relay failed, with
\* the host->device endpoint selected and stalled
C24_Witness ==
    /\ pc = "main"
    /\ HasFailed
    /\ Phase(trace[Len(trace)]) = 4
    /\ ep.selected = EA_OUTPUT
    /\ Stalls = <<"StallHostToDevice">>

---------------------------------------------------------------------------
(* The endpoint banks.                                                     *)

\* C27: a ReceiveByteFromHost call that returns Error_None made one
\* Endpoint_Read_8, on a bank that held at least one byte, after the wait if
\* it waited, and ran Endpoint_ClearOUT after it exactly when the byte read
\* was the last of the bank; one that fails only waited.  A SendByteToHost
\* call that returns Error_None made one Endpoint_Write_8, into a bank that
\* was not full, after Endpoint_ClearIN and the wait if it waited; one that
\* fails ran Endpoint_ClearIN and the wait and wrote nothing.
C27_BankDiscipline ==
    HostCallReturned =>
        LET last == trace[Len(trace)]
            W == "Endpoint_WaitUntilReady"
        IN  /\ ep.waited # <<>> <=> W \in {ep.ops[k] : k \in 1..Len(ep.ops)}
            /\ IsHostRecv(last) /\ last.err = None =>
                   /\ ep.ops \in
                          {<<"Endpoint_Read_8">>,
                           <<"Endpoint_Read_8", "Endpoint_ClearOUT">>,
                           <<W, "Endpoint_Read_8">>,
                           <<W, "Endpoint_Read_8", "Endpoint_ClearOUT">>}
                   /\ ep.level \in 1..BankSize
                   /\ ep.outBank = ep.level - 1
                   /\ ep.ops[Len(ep.ops)] = "Endpoint_ClearOUT"
                          <=> ep.level = 1
            /\ IsHostRecv(last) /\ last.err # None =>
                   /\ ep.ops = <<W>>
                   /\ ep.level = Uninit
                   /\ last.val = Uninit
            /\ IsHostSend(last) /\ last.err = None =>
                   /\ ep.ops \in {<<"Endpoint_Write_8">>,
                                  <<"Endpoint_ClearIN", W, "Endpoint_Write_8">>}
                   /\ ep.level \in 0..(BankSize - 1)
                   /\ ep.inBank = ep.level + 1
            /\ IsHostSend(last) /\ last.err # None =>
                   /\ ep.ops = <<"Endpoint_ClearIN", W>>
                   /\ ep.level = Uninit
                   /\ ep.inBank = 0

\* a read waited for a packet of one byte, read it and acknowledged the bank
C27_Witness ==
    /\ HostCallReturned
    /\ IsHostRecv(trace[Len(trace)])
    /\ trace[Len(trace)].err = None
    /\ ep.ops = <<"Endpoint_WaitUntilReady", "Endpoint_Read_8",
                  "Endpoint_ClearOUT">>
    /\ ep.level = 1
    /\ ep.outBank = 0

---------------------------------------------------------------------------
(* Framing on the link to the Beeb.                                        *)

\* the bytes this iteration read from the Beeb
BeebReads == Len(SelectSeq(trace, IsBeebRecv))

\* C28: when an iteration has ended without a transport error, the number
\* of bytes it read from the Beeb is the length of one request on the wire:
\* 2 for a request with the flag clear, 5 plus the declared payload size for
\* one with the flag set - for forwarded requests, presence probes and AVR
\* meta-requests alike.
C28_FramingSynchronised ==
    (pc = "main" /\ RequestTypeRead /\ ~HasFailed) =>
        IF IsVariable(ph["request"].t)
        THEN /\ BeebReads >= WireLength(ph["request"].t)
             /\ BeebReads = WireLength(ph["request"].t)
                                + Declared(ph["request"])
        ELSE BeebReads = WireLength(ph["request"].t)

---------------------------------------------------------------------------
(* Reads of the header fields.                                             *)

\* a header field the engine read and sent: an inline byte or a length byte
IsFieldSend(e) == e.by = Engine /\ IsSend(e) /\ e.what \in {"p", "p_size"}

\* the type byte of the engine call that made the call trace[k]
TypeSentBefore(k) ==
    LET T(j) == j < k /\ trace[j].by = Engine /\ trace[j].what = "type"
                    /\ trace[j].site = trace[k].site
        last == CHOOSE j \in {i \in 1..k : T(i)} :
                    \A i \in {m \in 1..k : T(m)} : i <= j
    IN  trace[last].val

\* C29: every read of a header's inline byte is made with its flag clear,
\* every read of its length bytes with its flag set, and the field read was
\* received or assigned before: in what serial_PacketHeader printed for
\* MainLoop, in the header bytes the engine sent, and in the sub-opcode that
\* HandleRequestAVR switches on.
C29_FieldReadsConsistent ==
    /\ \A k \in 1..Len(serial) :
           /\ serial[k].field = "p_size" <=> IsVariable(serial[k].t)
           /\ serial[k].assigned
    /\ \A k \in 1..Len(trace) :
           IsFieldSend(trace[k]) =>
               /\ trace[k].val # Uninit
               /\ trace[k].what = "p_size" <=> IsVariable(TypeSentBefore(k))
    /\ pc = "AVR_switch" => avr_p # Uninit

---------------------------------------------------------------------------
(* The selected endpoint.                                                  *)

IsFlush(e) == e.what = "flush"

\* the endpoint an entry of the history needs selected
EndpointFor(e) ==
    IF IsHostSend(e) \/ IsFlush(e) \/ e.op = "StallDeviceToHost"
    THEN EA_INPUT ELSE EA_OUTPUT

\* C30: every SendByteToHost call, the flush after the request and
\* StallDeviceToHost ran with EA_INPUT selected, every ReceiveByteFromHost
\* call and StallHostToDevice with EA_OUTPUT selected; and from the first
\* step of an iteration until the request is relayed - whatever the
\* iteration before did - EA_INPUT is selected.
C30_EndpointSelected ==
    /\ \A k \in 1..Len(trace) :
           (IsHostCall(trace[k]) \/ IsFlush(trace[k]) \/ IsStall(trace[k]))
               => trace[k].sel = EndpointFor(trace[k])
    /\ (pc # "main" /\ rph.ret = "ML_request_header")
           => ep.selected = EA_INPUT
    /\ (pc = "RPH_type" /\ rph.ret = "ML_response_header")
           => ep.selected = EA_OUTPUT

\* an iteration wrote the request to the host and flushed it with EA_INPUT
\* selected, then failed to read the response and stalled with EA_OUTPUT
C30_Witness ==
    /\ pc = "main"
    /\ \E k \in 1..Len(trace) : IsFlush(trace[k]) /\ trace[k].sel = EA_INPUT
    /\ trace[Len(trace)].op = "StallHostToDevice"
    /\ trace[Len(trace)].sel = EA_OUTPUT
    /\ ep.selected = EA_OUTPUT

---------------------------------------------------------------------------
(* The firmware free-runs.                                                 *)

\* the waits do not go on for ever: the Beeb drives CB2 to the level the
\* firmware waits for, and Endpoint_WaitUntilReady returns a result
\* - BeebResponds - that is not a timeout - HostWaitEnds
BeebResponds == ~<>[][WaitForBeebReadySpin]_vars
HostWaitEnds == ~<>[][WaitUntilEndpointReadyTimeout]_vars

---------------------------------------------------------------------------
(* The request is with the host before the response is awaited.            *)

\* C31: from the moment the firmware waits for the first byte of the
\* response header, no request byte is left in the device->host bank: the
\* bank was committed by the flush of MainLoop, with EA_INPUT still
\* selected, after the last SendByteToHost call and before the first
\* ReceiveByteFromHost call - for 2-byte requests and for requests that
\* fill the bank exactly as for the others.
C31_FlushedBeforeResponse ==
    (pc # "main" /\ rph.ret = "ML_response_header") =>
        /\ ep.inBank = 0
        /\ \E f \in 1..Len(trace) :
               /\ IsFlush(trace[f])
               /\ trace[f].sel = EA_INPUT
               /\ \A k \in 1..Len(trace) :
                      /\ IsHostSend(trace[k]) => k < f
                      /\ IsHostRecv(trace[k]) => f < k

\* a 6-byte request went to the host, its last byte filling the bank, the
\* bank was flushed and the firmware is about to wait for the response
C31_Witness ==
    /\ pc = "RPH_type"
    /\ rph.ret = "ML_response_header"
    /\ Len(SelectSeq(trace, IsHostSend)) = 6
    /\ ep.level = BankSize - 1
    /\ IsFlush(trace[Len(trace)])
    /\ ep.inBank = 0

---------------------------------------------------------------------------
(* The two forms of the AVR meta-request.                                  *)

\* what HandleRequestAVR sends to the Beeb for the inline sub-opcode b
InlineResponse(b) ==
    CASE b = REQUEST_AVR_READY -> ReadyResponse
      [] b = REQUEST_AVR_ERROR -> ErrorPacket(255, AsRequestedText)
      [] OTHER -> ErrorPacket(255, BadPayloadText)

\* the AVR meta-request came with the flag set and the length bytes 1,0,0,0
IsVariableForm ==
    /\ AvrCalled
    /\ TypeV(trace[1].val) = 1
    /\ ph["request"].p_size = <<1, 0, 0, 0>>

\* C32: an AVR meta-request with the flag set and a declared size of 1 reads
\* one more byte from the Beeb - the sixth of the iteration - before anything
\* is sent, switches on that byte, and sends the Beeb what the inline form
\* with the same sub-opcode sends: a beginning of it at every moment, the
\* whole of it when HandleRequestAVR returns Error_None.  If the receive of
\* that byte fails nothing is sent, no endpoint is stalled, no further
\* transport call is made and the iteration ends.
C32_VariableFormLikeInline ==
    LET subops == SelectSeq(trace, IsSubop)
        read == subops # <<>> /\ IsOk(subops[1])
        failed == subops # <<>> /\ ~IsOk(subops[1])
    IN  /\ IsVariableForm =>
               /\ Len(subops) <= 1
               /\ BeebReads = 5 + Len(subops)
               /\ (pc = "AVR_switch" \/ BeebSends # <<>> \/ AvrDone)
                      => Len(subops) = 1
               /\ BeebSends # <<>> => read
               /\ pc = "AVR_switch" => (read /\ avr_p = subops[1].val)
               /\ read =>
                      /\ IsPrefix(Vals(BeebSends), InlineResponse(subops[1].val))
                      /\ (AvrDone /\ err = None) =>
                             Vals(BeebSends) = InlineResponse(subops[1].val)
               /\ failed =>
                      /\ IsSubop(trace[Len(trace)])
                      /\ Stalls = <<>>
                      /\ err = subops[1].err
                      /\ pc \in {"ML_avr", "main"}
        /\ (AvrCalled /\ TypeV(trace[1].val) = 0) =>
               /\ subops = <<>>
               /\ BeebReads = 2
               /\ IsPrefix(Vals(BeebSends), InlineResponse(trace[2].val))
               /\ (AvrDone /\ err = None) =>
                      Vals(BeebSends) = InlineResponse(trace[2].val)

\* the error injection came as a 1-byte payload and the whole "As requested"
\* packet went to the Beeb
C32_Witness ==
    /\ IsVariableForm
    /\ BeebReads = 6
    /\ Subop = REQUEST_AVR_ERROR
    /\ pc = "ML_avr"
    /\ err = None
    /\ Vals(BeebSends) = InlineResponse(REQUEST_AVR_ERROR)

---------------------------------------------------------------------------
(* Tracing and the relay; the two forwarding routines.                     *)

\* the run in progress, and whether run k was of the same routine
Running == pc \notin {"Relay_idle", "Relay_return"}
SameRoutine(a, b) == a.impl = b.impl
SameRequest(a, b) == a.t = b.t

\* the calls of a relay of n payload bytes that ran to its end: the header
\* bytes, then for each index k in turn the receive of the k-th source byte
\* and the send of that byte
RelaysEachOnce(calls, n) ==
    /\ Len(calls) = 5 + 2 * n
    /\ \A k \in 0..(n - 1) :
           /\ calls[6 + 2 * k].op = "ReceiveByteFromSource"
           /\ calls[6 + 2 * k].val = SourceByte(k)
           /\ calls[7 + 2 * k].op = "SendByteToSink"
           /\ calls[7 + 2 * k].val = SourceByte(k)

\* C33: for the same header, source bytes and failing call, a forwarding
\* routine makes the same transport calls in the same order, with the same
\* bytes, and returns the same Error whether the request is one that is
\* traced or not - for payloads of 0, 25, 50, 51 and more bytes; a call for
\* the other request that is still running has made a beginning of those
\* calls; and a relay that returns Error_None has received and sent every
\* payload index once, in order.
C33_TracingLeavesRelay ==
    /\ \A a, b \in 1..Len(runs.done) :
           SameRoutine(runs.done[a], runs.done[b]) =>
               /\ runs.done[a].calls = runs.done[b].calls
               /\ runs.done[a].err = runs.done[b].err
    /\ \A a \in 1..Len(runs.done) :
           (Running /\ SameRoutine(runs.done[a], Head(runs.todo))) =>
               IsPrefix(trace, runs.done[a].calls)
    /\ \A a \in 1..Len(runs.done) :
           (runs.done[a].err = None /\ IsVariable(ph["response"].t)) =>
               RelaysEachOnce(runs.done[a].calls, Declared(ph["response"]))

\* a payload of 51 bytes went through both routines, traced - 50 bytes
\* dumped, the eliding message printed once - and untraced, without error
C33_Witness ==
    /\ Len(runs.done) = 4
    /\ Declared(ph["response"]) = MAX_NUM_DUMP_BYTES + 1
    /\ \A k \in {1, 3} :
           /\ runs.done[k].dumped = MAX_NUM_DUMP_BYTES
           /\ runs.done[k].elided = 1
    /\ \A k \in {2, 4} :
           /\ runs.done[k].dumped = 0
           /\ runs.done[k].elided = 0
    /\ \A k \in 1..4 :
           /\ runs.done[k].err = None
           /\ Len(runs.done[k].calls) = 5 + 2 * (MAX_NUM_DUMP_BYTES + 1)

\* C34: for the same header, source bytes and failing call,
\* SendPacketHeaderAndForwardPayload of beeblink.c and the body of
\* SendPacketHeaderAndForwardPayload.inl make the same sink sends and source
\* receives in the same order and return the same Error, for a request that
\* is traced and for one that is not; the one that runs second has at every
\* moment made a beginning of the calls of the first.
C34_SameAsGenerated ==
    /\ \A a, b \in 1..Len(runs.done) :
           SameRequest(runs.done[a], runs.done[b]) =>
               /\ runs.done[a].calls = runs.done[b].calls
               /\ runs.done[a].err = runs.done[b].err
    /\ \A a \in 1..Len(runs.done) :
           (Running /\ SameRequest(runs.done[a], Head(runs.todo))) =>
               IsPrefix(trace, runs.done[a].calls)

\* the receive of payload byte 26 of the largest payload, a byte that is
\* not traced, failed in both routines, the .inl tracing the request
C34_Witness ==
    /\ Len(runs.done) = 4
    /\ Declared(ph["response"]) = MaxRelay
    /\ runs.failAt = 5 + 2 * 26 + 1
    /\ runs.done[1].impl = "beeblink.c"
    /\ runs.done[3].impl = ".inl"
    /\ runs.done[3].verbose = 1
    /\ runs.done[3].err = USBDeviceDisconnected
    /\ Len(runs.done[3].calls) = runs.failAt
    /\ runs.done[3].calls = runs.done[1].calls

\* ReceivePacketHeader is filling MainLoop's request, or has returned and
\* MainLoop has not looked at its Error yet
ReceivingRequestHeader ==
    \/ pc = "ML_request_header"
    \/ pc \in {"RPH_type", "RPH_p_size", "RPH_p"} /\ rph.ph = "request"

\* a receive of ReceivePacketHeader for the request header returned an Error
RequestHeaderFailed(calls) ==
    \E k \in 1..Len(calls) :
        /\ calls[k].by = "ReceivePacketHeader"
        /\ calls[k].site = "ML_request_header"
        /\ calls[k].err # None

\* C35: the memo of the last request type does not carry protocol state from
\* one iteration of MainLoop to the next.  It is 0 from the start of an
\* iteration until the request header has been received, it is the received
\* type from then on, and it is left at 0 by an iteration whose request
\* header was not received.  Two iterations that start in the same state but
\* for the memo, with peers that behave alike, make the same transport
\* receives, sends and stalls in the same order - the one that runs second
\* has at every moment made a beginning of the calls of the first - return
\* with the same Error, receive the same request and leave the same memo.
\* The "waiting" message is printed at most once in an iteration.
C35_MemoOnlyForDiagnostic ==
    /\ pc \notin {"main", "Memo_done"} =>
           g_last_request_type =
               IF ReceivingRequestHeader THEN 0 ELSE ph["request"].t
    /\ \A a \in 1..Len(runs.done) :
           runs.done[a].memoEnd =
               IF RequestHeaderFailed(runs.done[a].calls) THEN 0
               ELSE runs.done[a].request.t
    /\ \A a, b \in 1..Len(runs.done) :
           /\ runs.done[a].calls = runs.done[b].calls
           /\ runs.done[a].err = runs.done[b].err
           /\ runs.done[a].request = runs.done[b].request
           /\ runs.done[a].memoEnd = runs.done[b].memoEnd
    /\ runs.replay # <<>> => IsPrefix(trace, runs.replay)
    /\ waiting.wait_for_bbc_msg <= 1
    /\ \A a \in 1..Len(runs.done) : runs.done[a].printed <= 1

\* an iteration that started with the memo of start-up and one that started
\* with the memo of a request that is not logged both relayed a request and
\* its response without error; the first printed the "waiting" message on
\* entry, the second while it waited for the Beeb
C35_Witness ==
    /\ Len(runs.done) = 2
    /\ IsVerboseRequestType(runs.done[1].memo)
    /\ ~IsVerboseRequestType(runs.done[2].memo)
    /\ runs.done[1].printed = 1
    /\ runs.done[2].printed = 1
    /\ runs.done[2].err = None
    /\ runs.done[2].memoEnd = runs.done[2].request.t
    /\ runs.done[2].memoEnd # runs.done[2].memo
    /\ runs.done[2].calls = runs.done[1].calls
    /\ \E k \in 1..Len(runs.done[2].calls) :
           /\ runs.done[2].calls[k].op = "SendByteToBeeb"
           /\ runs.done[2].calls[k].site = "ML_response_forwarded"

====
